---- MODULE Spec2Model ----
(***************************************************************************)
(* Model of the scheduling and autonomous-posting subsystem:               *)
(* backend/worker/scheduler.py (scanner, materializer, post executor,      *)
(* cycle driver), the scheduling and draft endpoints that feed it          *)
(* (backend/app/api/v1/schedule.py, drafts.py) and the part of XService    *)
(* the executor consults.                                                  *)
(*                                                                         *)
(* Time is in seconds since 00:00:00 UTC of day 0.  An optional value      *)
(* (a nullable column, Python's None) is a sequence of length 0 or 1.      *)
(* Row ids are positive integers; schedule_id 0 is the NULL foreign key.   *)
(***************************************************************************)
EXTENDS Integers, Sequences, FiniteSets, TLC

----------------------------------------------------------------------------
(* Bounds of the model *)

\* the clock is observed up to this instant
MaxNow == 120
\* Draft rows the database may hold
MaxDraftRows == 4
\* Schedule rows the database may hold
MaxScheduleRows == 1
\* instants after Horizon are read as Horizon by the modern path
Horizon == 1500
\* failing cycles the model follows (consecutive_failures is capped here)
MaxFailures == 2

(* Program constants *)

SecondsPerMinute == 60
MinutesPerHour == 60
SecondsPerDay == 24 * MinutesPerHour * SecondsPerMinute
\* Europe/Istanbul is UTC+03:00 all year
IstanbulOffset == 3 * MinutesPerHour * SecondsPerMinute
SchedulerIntervalSeconds == 30
DueBufferSeconds == 30
MaxDueDrafts == 5
DefaultIntervalMin == 120
DefaultIntervalMax == 300
MIN_TWEET_INTERVAL_SECONDS == 30
SafetyBuffer == 2
MAX_CONSECUTIVE_FAILURES == 10
\* variants the generator stored for the campaign before the first request
NumVariants == 2

None == << >>
Some(x) == << x >>
IsNone(o) == Len(o) = 0
Val(o) == o[1]

Min2(a, b) == IF a <= b THEN a ELSE b
Max2(a, b) == IF a >= b THEN a ELSE b

RECURSIVE SeqToSet(_)
SeqToSet(s) == IF s = << >> THEN {} ELSE {Head(s)} \cup SeqToSet(Tail(s))

----------------------------------------------------------------------------
(* Wall-clock arithmetic (pytz / datetime) *)

\* pytz.timezone(name), UnknownTimeZoneError falling back to UTC
TzOffset(name) ==
    IF name = "Europe/Istanbul" THEN IstanbulOffset ELSE 0

\* datetime.now(tz): the local wall clock, seconds since local midnight of day 0
LocalNow(tzname, t) == t + TzOffset(tzname)

LocalDay(tzname, t) == LocalNow(tzname, t) \div SecondsPerDay

\* local_now.hour * 60 + local_now.minute
CurrentMinute(tzname, t) ==
    (LocalNow(tzname, t) % SecondsPerDay) \div SecondsPerMinute

\* hour, minute = map(int, time_str.split(':')); a time string is the sequence
\* of the integers between its colons, so a malformed one raises ValueError
TimeStrValid(ts) == Len(ts) = 2

ScheduledMinute(ts) == ts[1] * MinutesPerHour + ts[2]

\* tz.localize(datetime(day, hour, minute)).astimezone(UTC).replace(tzinfo=None)
LocalToUtc(tzname, day, ts) ==
    day * SecondsPerDay + ScheduledMinute(ts) * SecondsPerMinute - TzOffset(tzname)

----------------------------------------------------------------------------
(* Due-Time Scanner, legacy path *)

\* line 123: the slot's own minute or the minute after it
SlotDue(cur, ts) ==
    cur = ScheduledMinute(ts) \/ cur = ScheduledMinute(ts) + 1

\* the for/try/break loop over schedule.times
AnyTimeDue(s, t) ==
    \E i \in 1..Len(s.times) :
        /\ TimeStrValid(s.times[i])
        /\ SlotDue(CurrentMinute(s.timezone, t), s.times[i])

\* the WHERE clause of the query and the end_date check of the loop
ScheduleOpenMut(s, t) == s.start_date <= t
ScheduleOpen(s, t) ==
    /\ s.is_active
    /\ s.start_date <= t
    /\ ~(~IsNone(s.end_date) /\ Val(s.end_date) < t)

\* get_due_schedules: ids of the due schedules, in table order
RECURSIVE DueFrom(_, _, _)
DueFrom(tbl, i, t) ==
    IF i > Len(tbl) THEN << >>
    ELSE (IF ScheduleOpen(tbl[i], t) /\ AnyTimeDue(tbl[i], t)
          THEN << i >> ELSE << >>) \o DueFrom(tbl, i + 1, t)

GetDueSchedules(tbl, t) == DueFrom(tbl, 1, t)

----------------------------------------------------------------------------
(* State *)

VARIABLES
    now,        \* the wall clock, UTC seconds
    xs,         \* the XService singleton: is_mock, the rate-limit cache, _last_tweet_time
    account,    \* the user's XAccount row
    schedules,  \* table schedules: sequence of rows, a row's id is its index
    drafts,     \* table drafts (committed): id -> row
    assets,     \* table media_assets of the campaign (committed): id -> row
    logs,       \* table post_logs (committed), in insertion order
    sess,       \* the cycle's AsyncSession: rows it wrote and has not committed
    pc,         \* where the scheduler process is
    cyc,        \* locals of run_scheduler_cycle / process_schedule
    consecutive_failures,
    requests,   \* API requests served so far
    tweets,     \* the platform: how often each draft's text was published
    attempts,   \* history: the due items the current cycle has taken up
    cycleFailed,\* history: drafts a committed cycle set to failed, not reset since
    manual      \* history: what the last POST /x/post request did, or the
                \* error response of the last rejected schedule request

vars == << now, xs, account, schedules, drafts, assets, logs, sess, pc, cyc,
           consecutive_failures, requests, tweets, attempts, cycleFailed, manual >>

\* API requests the model follows
MaxRequests == 2

EmptyFn == [x \in {} |-> 0]

EmptySess == [drafts |-> EmptyFn, logs |-> << >>, media |-> {}, refreshed |-> FALSE]

IdleCyc == [tscan |-> 0, due |-> << >>, slot |-> 1, pnow |-> 0, batch |-> << >>,
            idx |-> 1, logBase |-> 0, found |-> << >>]

\* what the session reads: the committed rows overlaid with its own writes
View(ss) ==
    [d \in DOMAIN drafts \cup DOMAIN ss.drafts |->
        IF d \in DOMAIN ss.drafts THEN ss.drafts[d] ELSE drafts[d]]

\* db.add(row); flush: the row gets a fresh primary key
FreshId(tbl) == Cardinality(DOMAIN tbl) + 1

WriteDraft(ss, d, row) ==
    [ss EXCEPT !.drafts =
        [x \in DOMAIN ss.drafts \cup {d} |-> IF x = d THEN row ELSE ss.drafts[x]]]

\* the rows of a set of ids in ascending (key, id) order
SortIds(ids, key) ==
    LET before(x, y) == key[x] < key[y] \/ (key[x] = key[y] /\ x < y)
        rank(x) == Cardinality({y \in ids : before(y, x)}) + 1
    IN [i \in 1..Cardinality(ids) |-> CHOOSE x \in ids : rank(x) = i]

Prefix(s, n) == SubSeq(s, 1, Min2(n, Len(s)))

Clock(t) == Min2(t, Horizon)

----------------------------------------------------------------------------
(* Draft Materializer *)

Raise == [kind |-> "raise", id |-> 0]
Null == [kind |-> "none", id |-> 0]
Row(d) == [kind |-> "row", id |-> d]

NewDraft(sched, scheduled_for, src) ==
    [campaign_id |-> src.campaign_id, schedule_id |-> sched,
     scheduled_for |-> scheduled_for, variant_index |-> src.variant_index,
     text |-> src.text, status |-> "pending", last_error |-> "",
     x_post_id |-> "", posted_at |-> None, media |-> << >>]

\* get_or_create_draft(db, schedule, scheduled_for) on the rows v the session sees;
\* pick is the row a LIMIT 1 without ORDER BY happens to return.
\* Result: the Draft returned (or None, or MultipleResultsFound raised by
\* scalar_one_or_none) and the rows afterwards.
ExistingFor(v, sid, t) ==
    {d \in DOMAIN v : v[d].schedule_id = sid /\ v[d].scheduled_for = Some(t)}

VariantSources(v, sid) ==
    {d \in DOMAIN v : /\ v[d].campaign_id = schedules[sid].campaign_id
                      /\ v[d].variant_index = schedules[sid].selected_variant_index
                      /\ v[d].schedule_id = 0}

FallbackSources(v, sid) ==
    {d \in DOMAIN v : v[d].campaign_id = schedules[sid].campaign_id}

GetOrCreateDraft(v, sid, t, pick) ==
    LET ex == ExistingFor(v, sid, t)
        vs == VariantSources(v, sid)
        fb == FallbackSources(v, sid)
        same == [res |-> Null, created |-> FALSE, rows |-> v]
    IN  IF Cardinality(ex) > 1 THEN [same EXCEPT !.res = Raise]
        ELSE IF Cardinality(ex) = 1 THEN [same EXCEPT !.res = Row(CHOOSE d \in ex : TRUE)]
        ELSE IF Cardinality(vs) > 1 THEN [same EXCEPT !.res = Raise]
        ELSE IF vs = {} /\ fb = {} THEN same
        ELSE LET src == IF vs # {} THEN CHOOSE d \in vs : TRUE
                        ELSE IF pick \in fb THEN pick ELSE CHOOSE d \in fb : TRUE
                 id == FreshId(v)
             IN [res |-> Row(id), created |-> TRUE,
                 rows |-> [d \in DOMAIN v \cup {id} |->
                             IF d = id THEN NewDraft(sid, Some(t), v[src]) ELSE v[d]]]

----------------------------------------------------------------------------
(* Rate / Pace Gate and publish call of XService *)

\* what the platform may answer to POST /tweets: a 2xx or an error status, each
\* with its x-app-limit-24hour-remaining / x-user-limit-24hour-remaining
\* headers (absent: None), or no response at all
Responses ==
    { [kind |-> "ok",    app |-> None,    user |-> None],
      [kind |-> "ok",    app |-> Some(2), user |-> Some(9)],
      [kind |-> "error", app |-> Some(0), user |-> Some(9)],
      [kind |-> "none",  app |-> None,    user |-> None] }

\* XService.seconds_until_can_post
SecondsUntilCanPost(x, t) ==
    IF x.is_mock \/ IsNone(x.last_tweet_time) THEN 0
    ELSE Max2(0, MIN_TWEET_INTERVAL_SECONDS - (t - Val(x.last_tweet_time)))

\* XService.can_post_tweet(safety_buffer)
CanPostTweet(x, buffer) ==
    x.is_mock \/ IsNone(x.app_remaining) \/ Val(x.app_remaining) > buffer

\* XService.can_user_post(user_id, safety_buffer)
CanUserPost(x, buffer) ==
    x.is_mock \/ IsNone(x.user_remaining) \/ Val(x.user_remaining) > buffer

\* XService.post_tweet, live: the result and the service afterwards
PostTweetMut(x, t, resp) ==
    IF resp.kind # "ok" THEN [success |-> FALSE, x |-> x]
    ELSE [success |-> TRUE,
          x |-> [x EXCEPT !.app_remaining = resp.app, !.user_remaining = resp.user,
                          !.last_tweet_time = Some(t)]]
PostTweet(x, t, resp) ==
    IF resp.kind = "none" THEN [success |-> FALSE, x |-> x]
    ELSE LET seen == [x EXCEPT !.app_remaining = resp.app,
                               !.user_remaining = resp.user]
         IN IF resp.kind = "ok"
            THEN [success |-> TRUE, x |-> [seen EXCEPT !.last_tweet_time = Some(t)]]
            ELSE [success |-> FALSE, x |-> seen]

----------------------------------------------------------------------------
(* Post Executor *)

\* the media loop of post_draft (lines 253-334) over the associations in
\* order_index order.  acc: the media ids gathered, the errors, the assets whose
\* x_media_id the loop set, and whether the loop raised (media_asset.file_data
\* is no attribute of MediaAsset: AttributeError when the file is not on disk).
\* line 262: if media_asset.x_media_id (set in the table or by this session)
MediaCachedMut(a, up) == FALSE
MediaCached(a, up) == a \in up \/ assets[a].x_media_id

RECURSIVE MediaLoop(_, _, _, _)
MediaLoop(ms, acc, x, env) ==
    IF ms = << >> \/ acc.raised THEN acc
    ELSE LET a == Head(ms)
             live == ~x.is_mock /\ account.connected
             step ==
                IF MediaCached(a, acc.up)
                THEN [acc EXCEPT !.ids = Append(@, a)]
                ELSE IF ~assets[a].on_disk THEN [acc EXCEPT !.raised = TRUE]
                ELSE IF live
                THEN (IF env.upload = "ok"
                      THEN [acc EXCEPT !.ids = Append(@, a), !.up = @ \cup {a},
                                       !.sent = Append(@, a)]
                      ELSE [acc EXCEPT !.errors = @ + 1, !.sent = Append(@, a)])
                ELSE IF x.is_mock
                THEN [acc EXCEPT !.ids = Append(@, a), !.up = @ \cup {a}]
                ELSE acc
         IN MediaLoop(Tail(ms), step, x, env)

\* ensure_valid_token raises ValueError: the stored token is about to expire,
\* this session has not refreshed it yet, and the refresh fails
RefreshFailsMut(ss, env) == FALSE
RefreshFails(ss, env) == account.expiring /\ ~ss.refreshed /\ ~env.refresh

\* lines 342-403: success, message, whether the platform published, and the
\* service, the clock and the token state afterwards
Publish(ss, x, t, env) ==
    LET no(msg) == [success |-> FALSE, message |-> msg, tweet_id |-> "",
                    published |-> FALSE, x |-> x, t |-> t, refreshed |-> FALSE,
                    calls |-> << >>]
    IN  IF x.is_mock
        THEN [no("Mock post successful") EXCEPT !.success = TRUE, !.tweet_id = "mock_tweet"]
        ELSE IF ~account.connected THEN no("X account not connected")
        ELSE LET wait == SecondsUntilCanPost(x, t)
                 t2 == t + wait
                 paced == << "can_post_now" >> \o
                          (IF wait > 0 THEN << "sleep" >> ELSE << >>)
                 app == paced \o << "can_post_tweet" >>
                 user == app \o << "can_user_post" >>
                 token == user \o << "ensure_valid_token" >>
             IN IF ~CanPostTweet(x, SafetyBuffer)
                THEN [no("App rate limit") EXCEPT !.t = t2, !.calls = app]
                ELSE IF ~CanUserPost(x, SafetyBuffer)
                THEN [no("User rate limit") EXCEPT !.t = t2, !.calls = user]
                ELSE IF RefreshFails(ss, env)
                THEN [no("Failed to refresh X token") EXCEPT !.t = t2, !.calls = token]
                ELSE LET r == PostTweet(x, t2, env.resp)
                     IN [success |-> r.success,
                         message |-> IF r.success THEN "Tweet posted successfully"
                                     ELSE "post_tweet failed",
                         tweet_id |-> IF r.success THEN "tweet" ELSE "",
                         published |-> env.resp.kind = "ok",
                         x |-> r.x, t |-> t2,
                         refreshed |-> account.expiring /\ ~ss.refreshed,
                         calls |-> token \o << "post_tweet" >>]

\* post_draft(db, draft, schedule) for draft d of the session's view
PostDraft(ss, x, t, d, env) ==
    LET row == View(ss)[d]
        m == MediaLoop(row.media, [ids |-> << >>, errors |-> 0, up |-> ss.media,
                                   raised |-> FALSE, sent |-> << >>], x, env)
        p == Publish(ss, x, t, env)
        newrow == IF p.success
                  THEN [row EXCEPT !.status = "posted", !.x_post_id = p.tweet_id,
                                   !.posted_at = Some(p.t)]
                  ELSE [row EXCEPT !.status = "failed", !.last_error = p.message]
        log == [draft_id |-> d, action |-> IF p.success THEN "posted" ELSE "failed",
                media_count |-> Len(m.ids), expected_media_count |-> Len(row.media)]
        ss2 == [WriteDraft(ss, d, newrow) EXCEPT
                    !.logs = Append(@, log), !.media = m.up,
                    !.refreshed = @ \/ p.refreshed]
        \* history: what this invocation found, called and wrote
        inv == [x |-> x, connected |-> account.connected,
                cached |-> {a \in SeqToSet(row.media) :
                                a \in ss.media \/ assets[a].x_media_id},
                sent |-> m.sent, ids |-> m.ids,
                \* the stored token the media loop decrypts is due for a refresh
                expiring |-> account.expiring /\ ~ss.refreshed,
                \* what the platform answered, if post_tweet was called
                resp |-> IF m.raised \/ "post_tweet" \notin SeqToSet(p.calls)
                         THEN None ELSE Some(env.resp),
                \* what ensure_valid_token, if it was called, had to do
                token |-> IF m.raised \/ "ensure_valid_token" \notin SeqToSet(p.calls)
                          THEN "unused"
                          ELSE IF ~(account.expiring /\ ~ss.refreshed) THEN "valid"
                          ELSE IF env.refresh THEN "refreshed"
                          ELSE "refresh_failed"]
    IN  IF m.raised
        THEN [raised |-> TRUE, sess |-> [ss EXCEPT !.media = m.up], x |-> x, t |-> t,
              published |-> FALSE,
              inv |-> [inv EXCEPT !.ids = << >>] @@
                      [calls |-> << >>, logs |-> << >>, outcome |-> "raised",
                       message |-> "AttributeError", status |-> row.status,
                       x_post_id |-> row.x_post_id, last_error |-> row.last_error]]
        ELSE [raised |-> FALSE, sess |-> ss2, x |-> p.x, t |-> p.t,
              published |-> p.published,
              inv |-> inv @@
                      [calls |-> p.calls, logs |-> << log >>,
                       outcome |-> IF p.success THEN "posted" ELSE "failed",
                       message |-> p.message, status |-> newrow.status,
                       x_post_id |-> newrow.x_post_id,
                       last_error |-> newrow.last_error]]

----------------------------------------------------------------------------
(* Due-Time Scanner, modern path *)

\* the WHERE clause of get_due_drafts
DueDraftMut(row, t) ==
    /\ row.status = "pending"
    /\ ~IsNone(row.scheduled_for)
    /\ Val(row.scheduled_for) <= t
DueDraft(row, t) ==
    /\ row.status = "pending"
    /\ ~IsNone(row.scheduled_for)
    /\ Val(row.scheduled_for) <= t + DueBufferSeconds

\* get_due_drafts(db, max_drafts): ORDER BY scheduled_for LIMIT max_drafts
GetDueDrafts(v, t, max_drafts) ==
    LET due == {d \in DOMAIN v : DueDraft(v[d], t)}
        key == [d \in due |-> Val(v[d].scheduled_for)]
    IN Prefix(SortIds(due, key), max_drafts)

----------------------------------------------------------------------------
(* Scheduler Cycle Driver *)

Envs == [upload : {"ok", "fail"}, refresh : BOOLEAN, resp : Responses]

\* history of one due item: the draft, the path that took it up, the status the
\* cycle read, whether post_draft was called and whether the platform published
Attempt(d, path, seen, submitted, published) ==
    [draft |-> d, path |-> path, seen |-> seen, submitted |-> submitted,
     published |-> published, failedByCycle |-> d \in cycleFailed]

\* the same with the driver's sleep before the item (None: no sleep) and, when
\* post_draft was called, what the invocation did
Attempted(att, slept, inv) == att @@ [slept |-> slept, inv |-> inv]

\* line 471 of process_schedule
AlreadyProcessedMut(status) == status = "skipped"
AlreadyProcessed(status) == status \in {"posted", "skipped"}

\* run_scheduler_cycle up to the return of get_due_schedules
CycleStart ==
    /\ pc = "idle"
    /\ pc' = "legacy"
    /\ sess' = EmptySess
    /\ cyc' = [IdleCyc EXCEPT !.due = GetDueSchedules(schedules, now),
                              !.found = GetDueSchedules(schedules, now),
                              !.tscan = now, !.pnow = now,
                              !.logBase = Len(logs)]
    /\ attempts' = << >>
    /\ UNCHANGED << now, xs, account, schedules, drafts, assets, logs,
                    consecutive_failures, requests, tweets, cycleFailed,
                    manual >>

\* the locals after one pass of process_schedule's loop: the next slot of the
\* same schedule, or the next due schedule (whose process_schedule reads the
\* clock anew); abandon: an exception left process_schedule
NextSlot(abandon, t) ==
    LET s == schedules[Head(cyc.due)]
    IN IF ~abandon /\ cyc.slot < Len(s.times)
       THEN [cyc EXCEPT !.slot = @ + 1]
       ELSE [cyc EXCEPT !.due = Tail(@), !.slot = 1, !.pnow = t]

\* one pass of the loop over schedule.times in process_schedule, for the first
\* of the remaining due schedules
ProcessSlot ==
    /\ pc = "legacy"
    /\ cyc.due # << >>
    /\ LET sid == Head(cyc.due)
           s == schedules[sid]
           ts == s.times[cyc.slot]
           v == View(sess)
           skip == /\ cyc' = NextSlot(FALSE, now)
                   /\ UNCHANGED << now, xs, sess, tweets, attempts >>
       IN IF ~TimeStrValid(ts) \/ ScheduledMinute(ts) # CurrentMinute(s.timezone, cyc.pnow)
          THEN skip
          ELSE \E pick \in DOMAIN v, env \in Envs :
               LET t == LocalToUtc(s.timezone, LocalDay(s.timezone, cyc.pnow), ts)
                   g == GetOrCreateDraft(v, sid, t, pick)
                   d == g.res.id
                   ss == IF g.created THEN WriteDraft(sess, d, g.rows[d]) ELSE sess
                   seen == g.rows[d].status
               IN IF g.res = Raise
                  THEN /\ cyc' = NextSlot(TRUE, now)
                       /\ UNCHANGED << now, xs, sess, tweets, attempts >>
                  ELSE IF g.res = Null THEN skip
                  ELSE IF AlreadyProcessed(seen)
                  THEN /\ cyc' = NextSlot(FALSE, now)
                       /\ sess' = ss
                       /\ attempts' = Append(attempts,
                              Attempted(Attempt(d, "legacy", seen, FALSE, FALSE),
                                        None, None))
                       /\ UNCHANGED << now, xs, tweets >>
                  ELSE IF s.auto_post
                  THEN LET r == PostDraft(ss, xs, now, d, env)
                       IN /\ sess' = r.sess
                          /\ xs' = r.x
                          /\ now' = r.t
                          /\ tweets' = IF r.published THEN Append(tweets, d) ELSE tweets
                          /\ attempts' = Append(attempts,
                                 Attempted(Attempt(d, "legacy", seen, TRUE, r.published),
                                           None, Some(r.inv)))
                          /\ cyc' = NextSlot(r.raised, r.t)
                  ELSE /\ sess' = [ss EXCEPT !.logs = Append(@,
                                      [draft_id |-> d, action |-> "scheduled",
                                       media_count |-> 0, expected_media_count |-> 0])]
                       /\ attempts' = Append(attempts,
                              Attempted(Attempt(d, "legacy", seen, FALSE, FALSE),
                                        None, None))
                       /\ cyc' = NextSlot(FALSE, now)
                       /\ UNCHANGED << now, xs, tweets >>
    /\ UNCHANGED << pc, account, schedules, drafts, assets, logs,
                    consecutive_failures, requests, cycleFailed,
                    manual >>

\* line 566: due_drafts = await get_due_drafts(db)
FetchDueDrafts ==
    /\ pc = "legacy"
    /\ cyc.due = << >>
    /\ pc' = "modern"
    /\ cyc' = [cyc EXCEPT !.batch = GetDueDrafts(View(sess), now, MaxDueDrafts),
                          !.idx = 1]
    /\ UNCHANGED << now, xs, account, schedules, drafts, assets, logs, sess,
                    consecutive_failures, requests, tweets, attempts, cycleFailed,
                    manual >>

\* one pass of the loop over due_drafts (lines 569-596)
ProcessDueDraft ==
    /\ pc = "modern"
    /\ cyc.idx <= Len(cyc.batch)
    /\ LET d == cyc.batch[cyc.idx]
           row == View(sess)[d]
           has == row.schedule_id # 0
           imin == IF has THEN schedules[row.schedule_id].post_interval_min
                   ELSE DefaultIntervalMin
           imax == IF has THEN schedules[row.schedule_id].post_interval_max
                   ELSE DefaultIntervalMax
       IN /\ cyc' = [cyc EXCEPT !.idx = @ + 1]
          /\ IF cyc.idx > 1 /\ imin > imax
             THEN \* random.randint raises ValueError: caught, the draft is left
                  /\ attempts' = Append(attempts,
                         Attempted(Attempt(d, "modern", row.status, FALSE, FALSE),
                                   None, None))
                  /\ UNCHANGED << now, xs, sess, tweets >>
             ELSE \E delay \in (IF cyc.idx > 1 THEN {imin, imax} ELSE {0}), env \in Envs :
                  IF has /\ schedules[row.schedule_id].auto_post
                  THEN LET r == PostDraft(sess, xs, Clock(now + delay), d, env)
                       IN /\ sess' = r.sess
                          /\ xs' = r.x
                          /\ now' = Clock(r.t)
                          /\ tweets' = IF r.published THEN Append(tweets, d) ELSE tweets
                          /\ attempts' = Append(attempts,
                                 Attempted(Attempt(d, "modern", row.status, TRUE,
                                                   r.published),
                                           IF cyc.idx > 1 THEN Some(delay) ELSE None,
                                           Some(r.inv)))
                  ELSE /\ now' = Clock(now + delay)
                       /\ attempts' = Append(attempts,
                              Attempted(Attempt(d, "modern", row.status, FALSE, FALSE),
                                        IF cyc.idx > 1 THEN Some(delay) ELSE None, None))
                       /\ UNCHANGED << xs, sess, tweets >>
    /\ UNCHANGED << pc, account, schedules, drafts, assets, logs,
                    consecutive_failures, requests, cycleFailed,
                    manual >>

\* the rows of the session written to the tables by COMMIT
Committed(ss) == View(ss)

\* line 598-601: await db.commit(); consecutive_failures = 0
CycleCommit ==
    /\ pc = "modern"
    /\ cyc.idx > Len(cyc.batch)
    /\ pc' = "done"
    /\ drafts' = Committed(sess)
    /\ logs' = logs \o sess.logs
    /\ assets' = [a \in DOMAIN assets |->
                    [assets[a] EXCEPT !.x_media_id = @ \/ a \in sess.media]]
    /\ account' = [account EXCEPT !.expiring = @ /\ ~sess.refreshed]
    /\ sess' = EmptySess
    /\ consecutive_failures' = 0
    /\ cycleFailed' =
         (cycleFailed \cup {d \in DOMAIN sess.drafts : sess.drafts[d].status = "failed"})
         \ {d \in DOMAIN sess.drafts : sess.drafts[d].status = "posted"}
    /\ UNCHANGED << now, xs, schedules, cyc, requests, tweets, attempts,
                    manual >>

\* what may leave the try block of run_scheduler_cycle: a database error, an
\* HTTP error of the platform client, or any other Exception
CycleErrors == {"SQLAlchemyError", "HTTPError", "Exception"}

\* lines 603-615: the except clause that takes the error: whether it calls
\* db.rollback() and what it adds to consecutive_failures
ExceptClauseMut(e) == [rollback |-> e # "HTTPError", count |-> 0]
ExceptClause(e) == [rollback |-> e # "HTTPError", count |-> 1]

\* lines 603-615: the unit of work fails (SQLAlchemyError at a flush or at the
\* commit, or any other error): the clause rolls back, or the session is closed
\* uncommitted on leaving 'async with'; either way its writes are discarded
CycleFailing(cap) ==
    /\ pc = "modern"
    /\ cyc.idx > Len(cyc.batch)
    /\ consecutive_failures < cap
    /\ pc' = "done"
    /\ sess' = EmptySess
    /\ \E e \in CycleErrors :
          consecutive_failures' = consecutive_failures + ExceptClause(e).count
    /\ UNCHANGED << now, xs, account, schedules, drafts, assets, logs, cyc,
                    requests, tweets, attempts, cycleFailed,
                    manual >>

\* the same for at most MaxFailures failures in a row
CycleFail == CycleFailing(MaxFailures)

\* main(): await asyncio.sleep(settings.scheduler_interval_seconds)
Sleep ==
    /\ pc = "done"
    /\ now + SchedulerIntervalSeconds <= MaxNow
    /\ pc' = "idle"
    /\ now' = now + SchedulerIntervalSeconds
    /\ UNCHANGED << xs, account, schedules, drafts, assets, logs, sess, cyc,
                    consecutive_failures, requests, tweets, attempts, cycleFailed,
                    manual >>

----------------------------------------------------------------------------
(* Scheduling and draft endpoints *)

CampaignId == 1

RECURSIVE Without(_, _)
Without(s, x) ==
    IF s = << >> THEN << >>
    ELSE (IF Head(s) = x THEN << >> ELSE << Head(s) >>) \o Without(Tail(s), x)

RECURSIVE WithoutAll(_, _)
WithoutAll(s, xset) ==
    IF s = << >> THEN << >>
    ELSE (IF Head(s) \in xset THEN << >> ELSE << Head(s) >>) \o WithoutAll(Tail(s), xset)

\* datetime.fromisoformat(s) brought to naive UTC: a string without offset is
\* local time of the request's timezone, one with an offset is an instant
IsoToUtc(tzname, iso) ==
    IF IsNone(iso.offset) THEN iso.t - TzOffset(tzname) ELSE iso.t - Val(iso.offset)

Naive(t) == [t |-> t, offset |-> None]

\* the request's slots as UTC instants: scheduled_times when given, else the
\* HH:MM times on the start date
RequestSlots(req) ==
    IF Len(req.scheduled_times) > 0
    THEN [i \in 1..Len(req.scheduled_times) |->
            IsoToUtc(req.timezone, req.scheduled_times[i])]
    ELSE [i \in 1..Len(req.times) |->
            LocalToUtc(req.timezone, req.start_date, req.times[i])]

\* the media chosen for one scheduled draft (lines 289-309): the video if the
\* campaign has one, else up to images_per_tweet images
SelectedMedia(req) ==
    IF req.images_per_tweet > 0 /\ DOMAIN assets # {}
    THEN Prefix(SortIds(DOMAIN assets, [a \in DOMAIN assets |-> a]),
                Min2(req.images_per_tweet, 4))
    ELSE << >>

\* the loop over the slots (lines 237-316 and 319-389): the first
\* len(unscheduled_drafts) slots take over the existing drafts, the others get
\* a copy of the variant whose turn it is
RECURSIVE ApplySlots(_, _, _, _, _, _)
ApplySlots(rows, idx, slots, unsched, sid, media) ==
    IF idx > Len(slots) THEN rows
    ELSE LET src == rows[unsched[((idx - 1) % Len(unsched)) + 1]]
             d == IF idx <= Len(unsched) THEN unsched[idx] ELSE FreshId(rows)
             row == IF idx <= Len(unsched)
                    THEN [rows[d] EXCEPT !.schedule_id = sid,
                                         !.scheduled_for = Some(slots[idx]),
                                         !.status = "pending",
                                         !.media = @ \o media]
                    ELSE [NewDraft(sid, Some(slots[idx]), src) EXCEPT !.media = media]
         IN ApplySlots([x \in DOMAIN rows \cup {d} |-> IF x = d THEN row ELSE rows[x]],
                       idx + 1, slots, unsched, sid, media)

ScheduleRow(req) ==
    [campaign_id |-> CampaignId, timezone |-> req.timezone, times |-> req.times,
     recurrence |-> req.recurrence,
     start_date |-> req.start_date * SecondsPerDay - TzOffset(req.timezone),
     end_date |-> IF IsNone(req.end_date) THEN None
                  ELSE Some(Val(req.end_date) * SecondsPerDay + (SecondsPerDay - 1)
                            - TzOffset(req.timezone)),
     is_active |-> TRUE, auto_post |-> req.auto_post, daily_limit |-> req.daily_limit,
     selected_variant_index |-> req.selected_variant_index,
     post_interval_min |-> req.post_interval_min,
     post_interval_max |-> req.post_interval_max]

\* the slot lists of the requests the model sends
SlotT == SecondsPerMinute
ReqShapes ==
    { [times |-> << <<0, 1>> >>, scheduled_times |-> << >>],
      [times |-> << <<0, 1>>, <<0, 1>> >>, scheduled_times |-> << >>],
      [times |-> << >>, scheduled_times |-> << Naive(SlotT) >>],
      [times |-> << >>, scheduled_times |-> << Naive(SlotT), Naive(SlotT) >>] }

ScheduleRequest(sh, e, ap, im) ==
    [timezone |-> "UTC", recurrence |-> "daily", times |-> sh.times,
     scheduled_times |-> sh.scheduled_times, start_date |-> 0, end_date |-> e,
     auto_post |-> ap, daily_limit |-> 10, selected_variant_index |-> 0,
     images_per_tweet |-> im, post_interval_min |-> 30, post_interval_max |-> 60]

\* the requests the model sends: every slot list with and without auto_post;
\* one whose end date is yesterday; one that attaches an image
ScheduleRequests ==
    { ScheduleRequest(sh, None, ap, 0) : sh \in ReqShapes, ap \in BOOLEAN }
    \cup { ScheduleRequest(sh, Some(0 - 1), TRUE, 0) :
             sh \in {x \in ReqShapes : Len(x.scheduled_times) = 1} }
    \cup { ScheduleRequest(sh, None, TRUE, 1) :
             sh \in {x \in ReqShapes : Len(x.times) = 1} }

\* 'if not drafts' after campaign_service.get_drafts: the campaign has no draft
NoDrafts(tbl) == DOMAIN tbl = {}

\* raise HTTPException(status_code=400, detail=...)
NoDraftsResponseMut == [status |-> 404, detail |-> "Campaign not found"]
NoDraftsResponse == [status |-> 400, detail |-> "No drafts found. Generate drafts first."]

\* POST /campaigns/{id}/schedule
ScheduleCampaign(req) ==
    /\ pc = "idle"
    /\ requests < MaxRequests
    /\ Len(schedules) < MaxScheduleRows
    /\ requests' = requests + 1
    /\ IF NoDrafts(drafts)
       THEN /\ manual' = Some(NoDraftsResponse)
            /\ UNCHANGED << schedules, drafts, logs, tweets, cycleFailed >>
       ELSE LET sid == Len(schedules) + 1
                vkey == [d \in DOMAIN drafts |-> drafts[d].variant_index]
                free == {d \in DOMAIN drafts : IsNone(drafts[d].scheduled_for)}
                unsched == IF free # {} THEN SortIds(free, vkey)
                           ELSE SortIds(DOMAIN drafts, vkey)
                slots == RequestSlots(req)
                rows == ApplySlots(drafts, 1, slots, unsched, sid, SelectedMedia(req))
                taken == SeqToSet(Prefix(unsched, Len(slots)))
            IN /\ Cardinality(DOMAIN rows) <= MaxDraftRows
               /\ schedules' = Append(schedules, ScheduleRow(req))
               /\ drafts' = rows
               /\ logs' = Append(logs, [draft_id |-> 0, action |-> "scheduled",
                                        media_count |-> 0, expected_media_count |-> 0])
               /\ tweets' = WithoutAll(tweets, taken)
               /\ cycleFailed' = cycleFailed \ taken
               /\ UNCHANGED manual
    /\ UNCHANGED << now, xs, account, assets, sess, pc, cyc, consecutive_failures,
                    attempts >>

\* POST /campaigns/{id}/schedule/auto
RECURSIVE AutoDrafts(_, _, _, _, _)
AutoDrafts(rows, idx, req, sid, sources) ==
    IF idx > Len(req.scheduled_times) THEN rows
    ELSE LET vi == req.selected_variant_indices[
                       ((idx - 1) % Len(req.selected_variant_indices)) + 1]
             hit == {d \in DOMAIN drafts : drafts[d].variant_index = vi}
             src == IF hit # {} THEN CHOOSE d \in hit : \A e \in hit : d <= e
                    ELSE sources[1]
             d == FreshId(rows)
             row == [NewDraft(sid, Some(IsoToUtc("UTC", req.scheduled_times[idx])),
                              drafts[src]) EXCEPT !.variant_index = vi]
         IN AutoDrafts([x \in DOMAIN rows \cup {d} |-> IF x = d THEN row ELSE rows[x]],
                       idx + 1, req, sid, sources)

AutoRequests ==
    { [scheduled_times |-> st, auto_post |-> ap, selected_variant_indices |-> << 0 >>] :
      st \in { << Naive(SlotT) >> }, ap \in BOOLEAN }

CreateAutoSchedule(req) ==
    /\ pc = "idle"
    /\ requests < MaxRequests
    /\ Len(schedules) < MaxScheduleRows
    /\ requests' = requests + 1
    /\ IF NoDrafts(drafts)
       THEN /\ manual' = Some(NoDraftsResponse)
            /\ UNCHANGED << schedules, drafts >>
       ELSE LET sid == Len(schedules) + 1
                vkey == [d \in DOMAIN drafts |-> drafts[d].variant_index]
                rows == AutoDrafts(drafts, 1, req, sid, SortIds(DOMAIN drafts, vkey))
            IN /\ Cardinality(DOMAIN rows) <= MaxDraftRows
               /\ schedules' = Append(schedules,
                    [campaign_id |-> CampaignId, timezone |-> "UTC", times |-> << >>,
                     recurrence |-> "once", start_date |-> now, end_date |-> None,
                     is_active |-> TRUE, auto_post |-> req.auto_post,
                     daily_limit |-> 10, selected_variant_index |-> 0,
                     post_interval_min |-> DefaultIntervalMin,
                     post_interval_max |-> DefaultIntervalMax])
               /\ drafts' = rows
               /\ UNCHANGED manual
    /\ UNCHANGED << now, xs, account, assets, logs, sess, pc, cyc,
                    consecutive_failures, tweets, attempts, cycleFailed >>

\* PUT /drafts/{draft_id}
UpdateRequest(tx, sf, st) == [text |-> tx, scheduled_for |-> sf, status |-> st]

UpdateRequests ==
    { UpdateRequest(Some("edited"), None, None),
      UpdateRequest(None, Some(Naive(SlotT)), None),
      UpdateRequest(None, None, Some("pending")),
      UpdateRequest(None, None, Some("skipped")) }

PutDraft(d, req) ==
    /\ requests < MaxRequests
    /\ d \in DOMAIN drafts
    /\ requests' = requests + 1
    /\ drafts' = [drafts EXCEPT ![d] =
          [@ EXCEPT !.text = IF IsNone(req.text) THEN @ ELSE Val(req.text),
                    !.scheduled_for = IF IsNone(req.scheduled_for) THEN @
                                      ELSE Some(Val(req.scheduled_for).t),
                    !.status = IF IsNone(req.status) THEN @ ELSE Val(req.status)]]
    /\ tweets' = IF IsNone(req.status) THEN tweets ELSE Without(tweets, d)
    /\ cycleFailed' = IF IsNone(req.status) THEN cycleFailed ELSE cycleFailed \ {d}
    /\ UNCHANGED << now, xs, account, schedules, assets, logs, sess, pc, cyc,
                    consecutive_failures, attempts,
                    manual >>

\* the request served between two cycles
UpdateDraft(d, req) ==
    /\ pc = "idle"
    /\ PutDraft(d, req)

----------------------------------------------------------------------------
(* The system *)

Template(vi) ==
    [campaign_id |-> CampaignId, schedule_id |-> 0, scheduled_for |-> None,
     variant_index |-> vi, text |-> IF vi = 0 THEN "v0" ELSE "v1",
     status |-> "pending", last_error |-> "", x_post_id |-> "", posted_at |-> None,
     media |-> << >>]

Init ==
    /\ now = 0
    /\ xs \in [is_mock : BOOLEAN, app_remaining : {None}, user_remaining : {None},
               last_tweet_time : {None}]
    /\ account \in {a \in [connected : BOOLEAN, expiring : BOOLEAN] :
                        /\ a.expiring => a.connected
                        /\ xs.is_mock => (a.connected /\ ~a.expiring)}
    /\ schedules = << >>
    /\ drafts = [d \in 1..NumVariants |-> Template(d - 1)]
    /\ assets \in [{1} -> [type : {"image"}, on_disk : BOOLEAN, x_media_id : {FALSE}]]
    /\ logs = << >>
    /\ sess = EmptySess
    /\ pc = "idle"
    /\ cyc = IdleCyc
    /\ consecutive_failures = 0
    /\ requests = 0
    /\ tweets = << >>
    /\ attempts = << >>
    /\ cycleFailed = {}
    /\ manual = None

Next ==
    \/ \E req \in ScheduleRequests : ScheduleCampaign(req)
    \/ \E req \in AutoRequests : CreateAutoSchedule(req)
    \/ \E d \in 1..MaxDraftRows, req \in UpdateRequests : UpdateDraft(d, req)
    \/ CycleStart
    \/ ProcessSlot
    \/ FetchDueDrafts
    \/ ProcessDueDraft
    \/ CycleCommit
    \/ CycleFail
    \/ Sleep

Spec == Init /\ [][Next]_vars

----------------------------------------------------------------------------
(* The scheduler alone over a table of schedules it finds in the database *)

\* Schedule tables the scan is run on
MaxScanRows == 2

ScanRows ==
    [campaign_id : {CampaignId},
     timezone : {"UTC", "Europe/Istanbul", "Mars/Olympus"},
     times : { << <<0, 1>> >>, << <<0>>, <<3, 1>>, <<23, 59>> >> },
     recurrence : {"daily"}, start_date : {0},
     end_date : {None, Some(0 - 1), Some(89)},
     is_active : BOOLEAN, auto_post : BOOLEAN, daily_limit : {10},
     selected_variant_index : {0},
     post_interval_min : {30}, post_interval_max : {60}]

ScanInit ==
    /\ now = 0
    /\ xs = [is_mock |-> TRUE, app_remaining |-> None, user_remaining |-> None,
             last_tweet_time |-> None]
    /\ account = [connected |-> TRUE, expiring |-> FALSE]
    /\ schedules \in UNION {[1..n -> ScanRows] : n \in 1..MaxScanRows}
    /\ drafts = [d \in 1..NumVariants |-> Template(d - 1)]
    /\ assets = << [type |-> "image", on_disk |-> TRUE, x_media_id |-> FALSE] >>
    /\ logs = << >>
    /\ sess = EmptySess
    /\ pc = "idle"
    /\ cyc = IdleCyc
    /\ consecutive_failures = 0
    /\ requests = 0
    /\ tweets = << >>
    /\ attempts = << >>
    /\ cycleFailed = {}
    /\ manual = None

CycleNext ==
    \/ CycleStart
    \/ ProcessSlot
    \/ FetchDueDrafts
    \/ ProcessDueDraft
    \/ CycleCommit
    \/ CycleFail
    \/ Sleep

ScanSpec == ScanInit /\ [][CycleNext]_vars

----------------------------------------------------------------------------
(* The worker running for ever over a backlog of overdue drafts *)

\* the rows create_auto_schedule has stored: schedule 1 (auto_post off) with
\* its k drafts due at 0, then schedule 2 (auto_post on) with one draft due at 30
AutoScheduleRow(ap) ==
    [campaign_id |-> CampaignId, timezone |-> "UTC", times |-> << >>,
     recurrence |-> "once", start_date |-> 0, end_date |-> None,
     is_active |-> TRUE, auto_post |-> ap, daily_limit |-> 10,
     selected_variant_index |-> 0, post_interval_min |-> DefaultIntervalMin,
     post_interval_max |-> DefaultIntervalMax]

Backlog(k) ==
    [d \in 1..(NumVariants + k + 1) |->
        IF d <= NumVariants THEN Template(d - 1)
        ELSE IF d <= NumVariants + k THEN NewDraft(1, Some(0), Template(0))
        ELSE NewDraft(2, Some(SchedulerIntervalSeconds), Template(0))]

LiveInit ==
    /\ now = 0
    /\ xs \in [is_mock : BOOLEAN, app_remaining : {None}, user_remaining : {None},
               last_tweet_time : {None}]
    /\ account = [connected |-> TRUE, expiring |-> FALSE]
    /\ schedules = << AutoScheduleRow(FALSE), AutoScheduleRow(TRUE) >>
    /\ \E k \in {MaxDueDrafts - 1, MaxDueDrafts} : drafts = Backlog(k)
    /\ assets = << [type |-> "image", on_disk |-> TRUE, x_media_id |-> FALSE] >>
    /\ logs = << >>
    /\ sess = EmptySess
    /\ pc = "idle"
    /\ cyc = IdleCyc
    /\ consecutive_failures = 0
    /\ requests = 0
    /\ tweets = << >>
    /\ attempts = << >>
    /\ cycleFailed = {}
    /\ manual = None

\* main(): the sleep between two cycles of a loop that never ends
SleepOn ==
    /\ pc = "done"
    /\ pc' = "idle"
    /\ now' = Clock(now + SchedulerIntervalSeconds)
    /\ UNCHANGED << xs, account, schedules, drafts, assets, logs, sess, cyc,
                    consecutive_failures, requests, tweets, attempts, cycleFailed,
                    manual >>

LiveNext ==
    \/ CycleStart
    \/ FetchDueDrafts
    \/ ProcessDueDraft
    \/ CycleCommit
    \/ SleepOn

\* the worker's loop keeps running: every step of it that can be taken is taken
LiveSpec == LiveInit /\ [][LiveNext]_vars /\ WF_vars(LiveNext)

PendingDueAuto(d) ==
    /\ d \in DOMAIN drafts
    /\ DueDraft(drafts[d], now)
    /\ drafts[d].schedule_id # 0
    /\ schedules[drafts[d].schedule_id].auto_post

Submitted(d) ==
    \E i \in 1..Len(attempts) : attempts[i].draft = d /\ attempts[i].submitted

\* C9: with the tick weakly fair, every pending due draft whose schedule has
\* auto_post on is eventually submitted to post_draft, whatever other pending
\* due drafts exist, max_drafts or more older ones that never leave pending
\* included.
C9_DueDraftEventuallySubmitted ==
    \A d \in 1..(NumVariants + MaxDueDrafts + 1) : PendingDueAuto(d) ~> Submitted(d)

----------------------------------------------------------------------------
(* The post executor and the manual post endpoint over every state of the
   service, the account and the media *)

\* XService.post_tweet called without user_id: the per-user limits stay
PostTweetAnon(x, t, resp) ==
    LET r == PostTweet(x, t, resp)
    IN [r EXCEPT !.x = [@ EXCEPT !.user_remaining = x.user_remaining]]

\* POST /x/post rejects the request with HTTP 400 (no account) or 401 (the
\* token refresh failed) before it calls post_tweet
PostToXRejected(env) ==
    \/ ~account.connected
    \/ (~xs.is_mock /\ account.expiring /\ ~env.refresh)

\* POST /x/post from the return of post_tweet (line 557) to the commit of
\* get_db: the draft, the log and the history of the call
PostToXDone(d, env) ==
    LET r == IF xs.is_mock THEN [success |-> TRUE, x |-> xs]
             ELSE PostTweetAnon(xs, now, env.resp)
        published == ~xs.is_mock /\ env.resp.kind = "ok"
    IN /\ manual' = Some([draft |-> d, mock |-> xs.is_mock, post_tweet |-> TRUE,
                          paced |-> SecondsUntilCanPost(xs, now) = 0,
                          app_ok |-> CanPostTweet(xs, SafetyBuffer),
                          user_ok |-> CanUserPost(xs, SafetyBuffer),
                          inflight |-> FALSE])
       /\ xs' = r.x
       /\ account' = [account EXCEPT !.expiring = @ /\ xs.is_mock]
       /\ drafts' = [drafts EXCEPT ![d] =
             IF r.success
             THEN [@ EXCEPT !.status = "posted", !.posted_at = Some(now),
                            !.x_post_id = IF xs.is_mock THEN "mock_tweet"
                                          ELSE "tweet"]
             ELSE [@ EXCEPT !.status = "failed", !.last_error = "post_tweet failed"]]
       /\ logs' = Append(logs, [draft_id |-> d,
                                action |-> IF r.success THEN "posted" ELSE "failed",
                                mock |-> xs.is_mock])
       /\ tweets' = IF published THEN Append(tweets, d) ELSE tweets
       /\ cycleFailed' = cycleFailed \ {d}

\* POST /x/post, served between two cycles
ManualPost(d, env) ==
    /\ pc = "idle"
    /\ requests < MaxRequests
    /\ d \in DOMAIN drafts
    /\ requests' = requests + 1
    /\ IF PostToXRejected(env)
       THEN \* HTTP 400 / 401: nothing is written
            /\ manual' = Some([draft |-> d, mock |-> xs.is_mock, post_tweet |-> FALSE,
                               paced |-> FALSE, app_ok |-> FALSE, user_ok |-> FALSE,
                               inflight |-> FALSE])
            /\ UNCHANGED << xs, account, drafts, logs, tweets, cycleFailed >>
       ELSE PostToXDone(d, env)
    /\ UNCHANGED << now, schedules, assets, sess, pc, cyc, consecutive_failures,
                    attempts >>

\* POST /x/post served while the scheduler runs in the same event loop: the
\* handler up to 'await x_service.post_tweet(...)', where it is suspended until
\* the platform answers
PostToXBegin(d) ==
    /\ requests < MaxRequests
    /\ d \in DOMAIN drafts
    /\ account.connected /\ ~account.expiring
    /\ IF IsNone(manual) THEN TRUE ELSE ~Val(manual).inflight
    /\ requests' = requests + 1
    /\ manual' = Some([draft |-> d, mock |-> xs.is_mock, post_tweet |-> TRUE,
                       paced |-> SecondsUntilCanPost(xs, now) = 0,
                       app_ok |-> CanPostTweet(xs, SafetyBuffer),
                       user_ok |-> CanUserPost(xs, SafetyBuffer),
                       inflight |-> TRUE])
    /\ UNCHANGED << now, xs, account, schedules, drafts, assets, logs, sess, pc, cyc,
                    consecutive_failures, tweets, attempts, cycleFailed >>

\* the platform's answer arrives and the handler runs to its commit
PostToXEnd(env) ==
    /\ ~IsNone(manual)
    /\ Val(manual).inflight
    /\ PostToXDone(Val(manual).draft, env)
    /\ UNCHANGED << now, schedules, assets, sess, pc, cyc, consecutive_failures,
                    requests, attempts >>

\* the two scheduled drafts of a schedule_campaign request with two scheduled
\* times at 00:00:00, each with the media list ms
PostDrafts(ms) ==
    [d \in 1..(NumVariants + 2) |->
        IF d <= NumVariants THEN Template(d - 1)
        ELSE [NewDraft(1, Some(0), Template(0)) EXCEPT !.media = ms]]

\* the Field constraints of ScheduleRequest on the two interval fields: each
\* field is bounded alone, no validator compares them
IntervalsAccepted(imin, imax) == imin \in 30..3600 /\ imax \in 60..7200

\* post_interval_min, post_interval_max of the requests
Intervals == { <<DefaultIntervalMin, DefaultIntervalMax>>,
               <<DefaultIntervalMax, DefaultIntervalMin>> }

\* the worker's last two ticks before MaxNow
PostStart == MaxNow - SchedulerIntervalSeconds

PostInit ==
    /\ now = PostStart
    /\ xs \in [is_mock : BOOLEAN, app_remaining : {None, Some(SafetyBuffer), Some(SafetyBuffer + 1)},
               user_remaining : {None, Some(SafetyBuffer)},
               last_tweet_time : {None, Some(PostStart - 10)}]
    /\ account \in {a \in [connected : BOOLEAN, expiring : BOOLEAN] :
                        a.expiring => a.connected}
    /\ \E iv \in Intervals :
          schedules = << [ScheduleRow(ScheduleRequest(
                              [times |-> << >>,
                               scheduled_times |-> << Naive(0), Naive(0) >>],
                              None, TRUE, 1))
                          EXCEPT !.post_interval_min = iv[1],
                                 !.post_interval_max = iv[2]] >>
    /\ \E ms \in { << >>, << 1 >> } : drafts = PostDrafts(ms)
    /\ assets \in [{1} -> [type : {"image"}, on_disk : BOOLEAN, x_media_id : BOOLEAN]]
    /\ drafts[NumVariants + 1].media = << >> =>
          assets[1].on_disk /\ ~assets[1].x_media_id
    /\ logs = << >>
    /\ sess = EmptySess
    /\ pc = "idle"
    /\ cyc = IdleCyc
    /\ consecutive_failures = 0
    /\ requests = 0
    /\ tweets = << >>
    /\ attempts = << >>
    /\ cycleFailed = {}
    /\ manual = None

PostNext ==
    \/ \E env \in {e \in Envs : e.upload = "ok"} : ManualPost(NumVariants + 2, env)
    \/ CycleStart
    \/ FetchDueDrafts
    \/ ProcessDueDraft
    \/ CycleCommit
    \/ CycleFail
    \/ Sleep

PostSpec == PostInit /\ [][PostNext]_vars

----------------------------------------------------------------------------
(* get_due_drafts over tables of scheduled drafts in every status *)

\* scheduled_for of the scheduled drafts of the table, in id order
DueTimes == << 40, 20, 150, 0, 30, 10, 60 >>

DueStatuses == {"pending", "posted", "failed"}

DueInit ==
    /\ now \in {0, SchedulerIntervalSeconds}
    /\ xs = [is_mock |-> TRUE, app_remaining |-> None, user_remaining |-> None,
             last_tweet_time |-> None]
    /\ account = [connected |-> TRUE, expiring |-> FALSE]
    /\ schedules = << ScheduleRow(ScheduleRequest(
                           [times |-> << >>,
                            scheduled_times |-> [k \in 1..Len(DueTimes) |->
                                                    Naive(DueTimes[k])]],
                           None, TRUE, 1)) >>
    /\ \E st \in [1..Len(DueTimes) -> DueStatuses] :
          drafts = [d \in 1..(NumVariants + Len(DueTimes)) |->
                       IF d <= NumVariants THEN Template(d - 1)
                       ELSE [NewDraft(1, Some(DueTimes[d - NumVariants]), Template(0))
                                EXCEPT !.status = st[d - NumVariants]]]
    /\ assets = << [type |-> "image", on_disk |-> TRUE, x_media_id |-> FALSE] >>
    /\ logs = << >>
    /\ sess = EmptySess
    /\ pc = "idle"
    /\ cyc = IdleCyc
    /\ consecutive_failures = 0
    /\ requests = 0
    /\ tweets = << >>
    /\ attempts = << >>
    /\ cycleFailed = {}
    /\ manual = None

DueNext ==
    \/ CycleStart
    \/ FetchDueDrafts

DueSpec == DueInit /\ [][DueNext]_vars

----------------------------------------------------------------------------
(* The loops that drive run_scheduler_cycle: main() of the worker process and
   run_scheduler_loop of the application *)

\* failures in a row the loops are followed for
FailureCap == MAX_CONSECUTIVE_FAILURES + MaxFailures

\* one mock-mode campaign with an auto_post schedule and two drafts due at once
LoopInit ==
    /\ now = 0
    /\ xs = [is_mock |-> TRUE, app_remaining |-> None, user_remaining |-> None,
             last_tweet_time |-> None]
    /\ account = [connected |-> TRUE, expiring |-> FALSE]
    /\ schedules = << ScheduleRow(ScheduleRequest(
                           [times |-> << >>,
                            scheduled_times |-> << Naive(0), Naive(0) >>],
                           None, TRUE, 1)) >>
    /\ drafts = PostDrafts(<< >>)
    /\ assets = << [type |-> "image", on_disk |-> TRUE, x_media_id |-> FALSE] >>
    /\ logs = << >>
    /\ sess = EmptySess
    /\ pc = "idle"
    /\ cyc = IdleCyc
    /\ consecutive_failures = 0
    /\ requests = 0
    /\ tweets = << >>
    /\ attempts = << >>
    /\ cycleFailed = {}
    /\ manual = None

\* main() lines 631-638: sys.exit(1) once the count has reached the threshold
Exit ==
    /\ pc = "done"
    /\ consecutive_failures >= MAX_CONSECUTIVE_FAILURES
    /\ pc' = "exited"
    /\ UNCHANGED << now, xs, account, schedules, drafts, assets, logs, sess, cyc,
                    consecutive_failures, requests, tweets, attempts, cycleFailed,
                    manual >>

\* main() line 648: the sleep, reached when the process did not exit
WorkerSleep ==
    /\ consecutive_failures < MAX_CONSECUTIVE_FAILURES
    /\ SleepOn

WorkerNext ==
    \/ CycleStart
    \/ FetchDueDrafts
    \/ ProcessDueDraft
    \/ CycleCommit
    \/ CycleFailing(FailureCap)
    \/ WorkerSleep
    \/ Exit

WorkerSpec == LoopInit /\ [][WorkerNext]_vars

\* lifespan after the yield: scheduler_task.cancel().  CancelledError is raised
\* at the await the task is suspended at; it is no Exception, so no except
\* clause of the cycle takes it, and the session is closed uncommitted
Shutdown ==
    /\ pc \in {"idle", "legacy", "modern", "done"}
    /\ pc' = "cancelled"
    /\ sess' = EmptySess
    /\ UNCHANGED << now, xs, account, schedules, drafts, assets, logs, cyc,
                    consecutive_failures, requests, tweets, attempts, cycleFailed,
                    manual >>

\* run_scheduler_loop (app/main.py 43-49): cycle, sleep, whatever the count is
AppNext ==
    \/ CycleStart
    \/ FetchDueDrafts
    \/ ProcessDueDraft
    \/ CycleCommit
    \/ CycleFailing(FailureCap)
    \/ SleepOn
    \/ Shutdown

AppSpec == LoopInit /\ [][AppNext]_vars

----------------------------------------------------------------------------
(* The application process: API requests served while a cycle of the background
   loop is suspended at an await *)

\* daily_limit of the requests: the least value the schema takes, the default
DailyLimits == {1, 10}

\* a live service and a connected account, one auto_post schedule with two
\* drafts due at once
RaceInit ==
    /\ now = PostStart
    /\ xs = [is_mock |-> FALSE, app_remaining |-> None, user_remaining |-> None,
             last_tweet_time |-> None]
    /\ account = [connected |-> TRUE, expiring |-> FALSE]
    /\ \E lim \in DailyLimits :
          schedules = << [ScheduleRow(ScheduleRequest(
                              [times |-> << >>,
                               scheduled_times |-> << Naive(0), Naive(0) >>],
                              None, TRUE, 1))
                          EXCEPT !.daily_limit = lim] >>
    /\ drafts = PostDrafts(<< >>)
    /\ assets = << [type |-> "image", on_disk |-> TRUE, x_media_id |-> FALSE] >>
    /\ logs = << >>
    /\ sess = EmptySess
    /\ pc = "idle"
    /\ cyc = IdleCyc
    /\ consecutive_failures = 0
    /\ requests = 0
    /\ tweets = << >>
    /\ attempts = << >>
    /\ cycleFailed = {}
    /\ manual = None

\* the scheduled drafts of RaceInit
RaceDrafts == (NumVariants + 1)..(NumVariants + 2)

RaceNext ==
    \/ CycleStart
    \/ FetchDueDrafts
    \/ ProcessDueDraft
    \/ CycleCommit
    \/ CycleFail
    \/ Sleep
    \/ \E d \in RaceDrafts : PostToXBegin(d)
    \/ \E env \in {e \in Envs : e.upload = "ok" /\ e.refresh} : PostToXEnd(env)
    \/ \E d \in RaceDrafts : PutDraft(d, UpdateRequest(None, None, Some("skipped")))

RaceSpec == RaceInit /\ [][RaceNext]_vars

----------------------------------------------------------------------------
(* XService.ensure_valid_token over stored expiry times around the five-minute
   buffer.  Elsewhere the account's 'expiring' flag stands for TokenExpiring. *)

\* buffer_time = timedelta(minutes=5)
TokenBufferSeconds == 5 * SecondsPerMinute

\* expires_in of the platform's token response (and the default of line 674)
ExpiresIn == 7200

\* if x_account.token_expires_at and (token_expires_at - buffer_time) <= now
TokenExpiringMut(acct, t) ==
    /\ ~IsNone(acct.token_expires_at)
    /\ Val(acct.token_expires_at) - TokenBufferSeconds < t
TokenExpiring(acct, t) ==
    /\ ~IsNone(acct.token_expires_at)
    /\ Val(acct.token_expires_at) - TokenBufferSeconds <= t

\* what the token endpoint may answer to a refresh: new tokens, a new access
\* token without refresh_token (the old one is kept), or an error
RefreshResponses == {"rotated", "access_only", "error"}

\* refresh_tokens(refresh_token) at time t: tokens are numbered, a new one has
\* the next number
RefreshTokens(acct, t, resp) ==
    [access_token |-> acct.access_token + 1,
     refresh_token |-> IF resp = "rotated" THEN acct.refresh_token + 1
                       ELSE acct.refresh_token,
     token_expires_at |-> Some(t + ExpiresIn)]

\* ensure_valid_token(x_account, db) at time t: whether it raised, the token it
\* returned and the account afterwards
EnsureValidToken(acct, mock, t, resp) ==
    IF mock THEN [raised |-> FALSE, token |-> acct.access_token, account |-> acct]
    ELSE IF TokenExpiring(acct, t)
    THEN (IF resp = "error"
          THEN [raised |-> TRUE, token |-> 0, account |-> acct]
          ELSE LET new == RefreshTokens(acct, t, resp)
               IN [raised |-> FALSE, token |-> new.access_token, account |-> new])
    ELSE [raised |-> FALSE, token |-> acct.access_token, account |-> acct]

\* the accounts the calls are made on: no expiry stored, or an expiry before,
\* at and after the buffer's edge
TokenExpiries == {None, Some(0), Some(TokenBufferSeconds),
                  Some(TokenBufferSeconds + SchedulerIntervalSeconds),
                  Some(ExpiresIn)}

TokenInit ==
    /\ now = 0
    /\ xs \in [is_mock : BOOLEAN, app_remaining : {None}, user_remaining : {None},
               last_tweet_time : {None}]
    /\ account \in [access_token : {1}, refresh_token : {1},
                    token_expires_at : TokenExpiries]
    /\ schedules = << >>
    /\ drafts = [d \in 1..NumVariants |-> Template(d - 1)]
    /\ assets = << [type |-> "image", on_disk |-> TRUE, x_media_id |-> FALSE] >>
    /\ logs = << >>
    /\ sess = EmptySess
    /\ pc = "idle"
    /\ cyc = IdleCyc
    /\ consecutive_failures = 0
    /\ requests = 0
    /\ tweets = << >>
    /\ attempts = << >>
    /\ cycleFailed = {}
    /\ manual = None

\* a caller (post_draft line 380, POST /x/post line 553) calls
\* ensure_valid_token; manual keeps the call: the account before, the time,
\* and the result
EnsureToken(resp) ==
    /\ requests < MaxRequests
    /\ requests' = requests + 1
    /\ LET r == EnsureValidToken(account, xs.is_mock, now, resp)
       IN /\ account' = r.account
          /\ manual' = Some([before |-> account, at |-> now, mock |-> xs.is_mock,
                             raised |-> r.raised, token |-> r.token,
                             after |-> r.account])
    /\ UNCHANGED << now, xs, schedules, drafts, assets, logs, sess, pc, cyc,
                    consecutive_failures, tweets, attempts, cycleFailed >>

\* time passes
TokenTick ==
    /\ now + SchedulerIntervalSeconds <= MaxNow
    /\ now' = now + SchedulerIntervalSeconds
    /\ UNCHANGED << xs, account, schedules, drafts, assets, logs, sess, pc, cyc,
                    consecutive_failures, requests, tweets, attempts, cycleFailed,
                    manual >>

TokenNext ==
    \/ \E resp \in RefreshResponses : EnsureToken(resp)
    \/ TokenTick

TokenSpec == TokenInit /\ [][TokenNext]_vars

----------------------------------------------------------------------------
(* Schedule requests for a campaign whose drafts have not been generated *)

DraftlessInit ==
    /\ now = 0
    /\ xs \in [is_mock : BOOLEAN, app_remaining : {None}, user_remaining : {None},
               last_tweet_time : {None}]
    /\ account \in {a \in [connected : BOOLEAN, expiring : BOOLEAN] :
                        a.expiring => a.connected}
    /\ schedules = << >>
    /\ drafts = EmptyFn
    /\ assets = << [type |-> "image", on_disk |-> TRUE, x_media_id |-> FALSE] >>
    /\ logs = << >>
    /\ sess = EmptySess
    /\ pc = "idle"
    /\ cyc = IdleCyc
    /\ consecutive_failures = 0
    /\ requests = 0
    /\ tweets = << >>
    /\ attempts = << >>
    /\ cycleFailed = {}
    /\ manual = None

DraftlessNext ==
    \/ \E req \in ScheduleRequests : ScheduleCampaign(req)
    \/ \E req \in AutoRequests : CreateAutoSchedule(req)
    \/ CycleStart
    \/ FetchDueDrafts
    \/ CycleCommit
    \/ CycleFail
    \/ Sleep

DraftlessSpec == DraftlessInit /\ [][DraftlessNext]_vars

----------------------------------------------------------------------------
(* Next runs of a schedule (GET schedule: calculate_next_runs) *)

\* days of wall clock the next-run calls are made over
RunsDays == 3
\* max_iterations = 365
MaxIterations == 365

\* sorted(schedule.times): string order, a prefix before its extensions
RECURSIVE TimeStrBefore(_, _)
TimeStrBefore(a, b) ==
    IF a = << >> THEN b # << >>
    ELSE IF b = << >> THEN FALSE
    ELSE IF Head(a) # Head(b) THEN Head(a) < Head(b)
    ELSE TimeStrBefore(Tail(a), Tail(b))

SortedTimes(times) ==
    LET before(i, j) == TimeStrBefore(times[i], times[j]) \/
                        (~TimeStrBefore(times[j], times[i]) /\ i < j)
        rank(i) == Cardinality({j \in 1..Len(times) : before(j, i)}) + 1
    IN [k \in 1..Len(times) |->
           times[CHOOSE i \in 1..Len(times) : rank(i) = k]]

\* map(int, split(':')) unpacks two integers and datetime(...) takes hour
\* 0..23 and minute 0..59; anything else raises ValueError
RunTimeValid(ts) ==
    /\ TimeStrValid(ts)
    /\ ts[1] \in 0..(24 - 1)
    /\ ts[2] \in 0..(MinutesPerHour - 1)

\* run_time.isoformat(): local date and time with the zone's offset
IsoFormat(tzname, day, ts) ==
    [date |-> day, time |-> ts, utcoffset |-> TzOffset(tzname)]

\* datetime.fromisoformat(run): the instant, UTC seconds
FromIsoFormat(r) ==
    r.date * SecondsPerDay + ScheduledMinute(r.time) * SecondsPerMinute - r.utcoffset

\* the end of the schedule: end_date itself when it carries a zone, else the
\* last instant of its calendar day in the schedule's zone
EndInstant(sch) ==
    IF sch.aware THEN Val(sch.end_date)
    ELSE (Val(sch.end_date) \div SecondsPerDay) * SecondsPerDay
         + (SecondsPerDay - 1) - TzOffset(sch.timezone)

\* 'if schedule.end_date: ... if run_time > end: continue'
PastEndDateMut(sch, run) == FALSE
PastEndDate(sch, run) ==
    /\ ~IsNone(sch.end_date)
    /\ run > EndInstant(sch)

\* the for loop over the sorted times of one day, from the i-th on
RECURSIVE DayRuns(_, _, _, _, _, _, _)
DayRuns(sch, count, t, day, sorted, i, acc) ==
    IF i > Len(sorted) THEN acc
    ELSE IF ~RunTimeValid(sorted[i])
         THEN DayRuns(sch, count, t, day, sorted, i + 1, acc)
    ELSE LET run == LocalToUtc(sch.timezone, day, sorted[i])
         IN IF run > t /\ ~PastEndDate(sch, run)
            THEN LET more == Append(acc, IsoFormat(sch.timezone, day, sorted[i]))
                 IN IF Len(more) >= count THEN more
                    ELSE DayRuns(sch, count, t, day, sorted, i + 1, more)
            ELSE DayRuns(sch, count, t, day, sorted, i + 1, acc)

\* the while loop over the days: iterations lo..hi in their order, stopping
\* once count runs are collected (the range is halved to keep the evaluation
\* shallow; the days are visited in the same order as by the loop)
RECURSIVE RunsFrom(_, _, _, _, _, _, _, _)
RunsFrom(sch, count, t, sorted, first, lo, hi, acc) ==
    IF ~(Len(acc) < count) THEN acc
    ELSE IF lo = hi THEN DayRuns(sch, count, t, first + lo, sorted, 1, acc)
    ELSE LET mid == (lo + hi) \div 2
         IN RunsFrom(sch, count, t, sorted, first, mid + 1, hi,
                     RunsFrom(sch, count, t, sorted, first, lo, mid, acc))

\* start_date.date(): the calendar day of the start date, in its own zone
StartDay(sch) ==
    IF sch.aware THEN LocalDay(sch.timezone, sch.start_date)
    ELSE sch.start_date \div SecondsPerDay

CalculateNextRuns(sch, count, t) ==
    LET first == IF StartDay(sch) * SecondsPerDay < LocalNow(sch.timezone, t)
                 THEN LocalDay(sch.timezone, t)
                 ELSE StartDay(sch)
        sorted == SortedTimes(sch.times)
        \* recurrence once breaks out of the loop after its first iteration
        last == IF sch.recurrence = "once" THEN 0 ELSE MaxIterations - 1
    IN RunsFrom(sch, count, t, sorted, first, 0, last, << >>)

\* the times lists of the schedules: in order, out of order with a repeated
\* time, with a malformed and an out-of-range time, and one on the clock's grid
RunTimes == { << <<9, 0>>, <<18, 30>> >>,
              << <<18, 0>>, <<6, 0>>, <<6, 0>> >>,
              << <<0>>, <<24, 0>>, <<12, 0>> >> }

RunCounts == {0, 1, 2, 5}

RunsInit ==
    /\ now = 0
    /\ xs = [is_mock |-> TRUE, app_remaining |-> None, user_remaining |-> None,
             last_tweet_time |-> None]
    /\ account = [connected |-> FALSE, expiring |-> FALSE]
    /\ schedules \in
         {<< sch >> : sch \in
            [timezone : {"UTC", "Europe/Istanbul"},
             times : RunTimes,
             recurrence : {"once", "daily"},
             start_date : {0, SecondsPerDay + 10 * MinutesPerHour * SecondsPerMinute},
             end_date : {None, Some(SecondsPerDay + 12 * MinutesPerHour * SecondsPerMinute)},
             aware : BOOLEAN]}
    /\ drafts = [d \in 1..NumVariants |-> Template(d - 1)]
    /\ assets = << [type |-> "image", on_disk |-> TRUE, x_media_id |-> FALSE] >>
    /\ logs = << >>
    /\ sess = EmptySess
    /\ pc = "idle"
    /\ cyc = IdleCyc
    /\ consecutive_failures = 0
    /\ requests = 0
    /\ tweets = << >>
    /\ attempts = << >>
    /\ cycleFailed = {}
    /\ manual = None

\* next_runs = calculate_next_runs(schedule); manual keeps the call: the clock,
\* the count asked for and the list returned
NextRuns(count) ==
    /\ manual' = Some([at |-> now, count |-> count,
                       runs |-> CalculateNextRuns(schedules[1], count, now)])
    /\ UNCHANGED << now, xs, account, schedules, drafts, assets, logs, sess, pc,
                    cyc, consecutive_failures, requests, tweets, attempts,
                    cycleFailed >>

\* twelve hours pass
RunsTick ==
    /\ now + 12 * MinutesPerHour * SecondsPerMinute <= RunsDays * SecondsPerDay
    /\ now' = now + 12 * MinutesPerHour * SecondsPerMinute
    /\ UNCHANGED << xs, account, schedules, drafts, assets, logs, sess, pc, cyc,
                    consecutive_failures, requests, tweets, attempts, cycleFailed,
                    manual >>

RunsNext ==
    \/ \E count \in RunCounts : NextRuns(count)
    \/ RunsTick

RunsSpec == RunsInit /\ [][RunsNext]_vars

----------------------------------------------------------------------------
(* The pacing check on a clock finer than a second (datetime.utcnow() and
   total_seconds() carry microseconds): in this specification now and
   xs.last_tweet_time count ticks *)

\* ticks of the clock per second
TicksPerSecond == 2
\* seconds of wall clock the pacing is followed for
PaceSeconds == 35

\* XService.seconds_until_can_post on the fine clock: remaining is a float,
\* int(remaining) truncates it, max(0, ...) keeps it from going negative
SecondsUntilCanPostAt(x, t) ==
    IF x.is_mock \/ IsNone(x.last_tweet_time) THEN 0
    ELSE LET remaining == MIN_TWEET_INTERVAL_SECONDS * TicksPerSecond
                          - (t - Val(x.last_tweet_time))
         IN IF remaining <= 0 THEN 0 ELSE remaining \div TicksPerSecond

PaceInit ==
    /\ now = 0
    /\ xs = [is_mock |-> FALSE, app_remaining |-> None, user_remaining |-> None,
             last_tweet_time |-> None]
    /\ account = [connected |-> TRUE, expiring |-> FALSE]
    /\ schedules = << >>
    /\ drafts = [d \in 1..NumVariants |-> Template(d - 1)]
    /\ assets = << [type |-> "image", on_disk |-> TRUE, x_media_id |-> FALSE] >>
    /\ logs = << >>
    /\ sess = EmptySess
    /\ pc = "idle"
    /\ cyc = IdleCyc
    /\ consecutive_failures = 0
    /\ requests = 0
    /\ tweets = << >>
    /\ attempts = << >>
    /\ cycleFailed = {}
    /\ manual = None

\* post_draft from the pacing check to the return of a successful post_tweet:
\* it sleeps the returned wait, the call takes latency ticks, and post_tweet
\* stamps _last_tweet_time with the clock at its return.  manual keeps the
\* stamp found, the wait and the new stamp
PacedPublish(latency) ==
    LET wait == SecondsUntilCanPostAt(xs, now)
        at == now + wait * TicksPerSecond + latency
    IN /\ at <= PaceSeconds * TicksPerSecond
       /\ now' = at
       /\ xs' = [xs EXCEPT !.last_tweet_time = Some(at)]
       /\ manual' = Some([previous |-> xs.last_tweet_time, wait |-> wait, at |-> at])
       /\ UNCHANGED << account, schedules, drafts, assets, logs, sess, pc, cyc,
                       consecutive_failures, requests, tweets, attempts,
                       cycleFailed >>

\* a tick passes
PaceTick ==
    /\ now + 1 <= PaceSeconds * TicksPerSecond
    /\ now' = now + 1
    /\ UNCHANGED << xs, account, schedules, drafts, assets, logs, sess, pc, cyc,
                    consecutive_failures, requests, tweets, attempts, cycleFailed,
                    manual >>

PaceNext ==
    \/ \E latency \in 0..1 : PacedPublish(latency)
    \/ PaceTick

PaceSpec == PaceInit /\ [][PaceNext]_vars

----------------------------------------------------------------------------
(* XService._chunked_upload against every behaviour of the platform: in this
   specification cyc holds the locals of the call and the commands it sent *)

\* segments of the largest file uploaded
MaxSegments == 2
\* STATUS polls the command history keeps apart (later polls are not appended)
MaxPolls == 2
\* processing_info.get("check_after_secs", 5)
DefaultCheckAfterSecs == 5

\* upload_media takes the chunked path for a video of any size and for an
\* image above 5 MB (two chunks or more)
UploadFiles ==
    { [media_type |-> "video", segments |-> n] : n \in 0..MaxSegments }
    \cup { [media_type |-> "image", segments |-> n] : n \in 2..MaxSegments }

\* processing_info of a FINALIZE or STATUS response: absent, or a state with
\* the time to wait before the next poll
ProcessingInfos ==
    {None} \cup { Some([state |-> st, check_after_secs |-> k]) :
                     st \in {"pending", "in_progress", "succeeded", "failed"},
                     k \in {DefaultCheckAfterSecs, SecondsPerMinute} }

\* what the platform does with a command: an HTTP error or no answer, or the
\* JSON body
UploadResponses ==
    {[kind |-> "error", processing_info |-> None]}
    \cup { [kind |-> "json", processing_info |-> pinfo] : pinfo \in ProcessingInfos }

Command(name, i, ok) == [command |-> name, segment_index |-> i, ok |-> ok]

\* return success, message, media_id
Returned(c, success) ==
    [c EXCEPT !.phase = "returned",
              !.result = Some([success |-> success,
                               media_id |-> IF success THEN Some("media_id")
                                            ELSE None])]

\* while state in ("pending", "in_progress")
Polling(state) == state \in {"pending", "in_progress"}

\* if state == "failed": return False
ProcessingFailedMut(state) == FALSE
ProcessingFailed(state) == state = "failed"

\* the loop condition and the check behind the loop, for the state just read
Settle(c, state, check) ==
    IF Polling(state)
    THEN [c EXCEPT !.phase = "status", !.state = state, !.check_after_secs = check]
    ELSE IF ProcessingFailed(state) THEN Returned([c EXCEPT !.state = state], FALSE)
    ELSE Returned([c EXCEPT !.state = state], TRUE)

UploadInit ==
    /\ now = 0
    /\ xs = [is_mock |-> FALSE, app_remaining |-> None, user_remaining |-> None,
             last_tweet_time |-> None]
    /\ account = [connected |-> TRUE, expiring |-> FALSE]
    /\ schedules = << >>
    /\ drafts = [d \in 1..NumVariants |-> Template(d - 1)]
    /\ assets = << [type |-> "image", on_disk |-> TRUE, x_media_id |-> FALSE] >>
    /\ logs = << >>
    /\ sess = EmptySess
    /\ pc = "idle"
    /\ \E f \in UploadFiles :
          cyc = [media_type |-> f.media_type, segments |-> f.segments,
                 phase |-> "init", i |-> 0, state |-> "",
                 check_after_secs |-> DefaultCheckAfterSecs,
                 commands |-> << >>, result |-> None]
    /\ consecutive_failures = 0
    /\ requests = 0
    /\ tweets = << >>
    /\ attempts = << >>
    /\ cycleFailed = {}
    /\ manual = None

\* Step 1: INIT; resp: the response carries a media id, carries none, or is an
\* error
ChunkedInit(resp) ==
    /\ cyc.phase = "init"
    /\ LET c == [cyc EXCEPT !.commands = Append(@, Command("INIT", 0, resp = "ok"))]
       IN cyc' = IF resp # "ok" THEN Returned(c, FALSE)
                 ELSE [c EXCEPT !.phase = IF c.segments > 0 THEN "append"
                                          ELSE "finalize"]
    /\ UNCHANGED << now, xs, account, schedules, drafts, assets, logs, sess, pc,
                    consecutive_failures, requests, tweets, attempts, cycleFailed,
                    manual >>

\* Step 2: one pass of the APPEND loop
ChunkedAppend(resp) ==
    /\ cyc.phase = "append"
    /\ LET c == [cyc EXCEPT !.commands =
                     Append(@, Command("APPEND", cyc.i, resp = "ok"))]
       IN cyc' = IF resp # "ok" THEN Returned(c, FALSE)
                 ELSE [c EXCEPT !.i = @ + 1,
                                !.phase = IF c.i + 1 < c.segments THEN "append"
                                          ELSE "finalize"]
    /\ UNCHANGED << now, xs, account, schedules, drafts, assets, logs, sess, pc,
                    consecutive_failures, requests, tweets, attempts, cycleFailed,
                    manual >>

\* Step 3: FINALIZE, and for a video the first look at processing_info
ChunkedFinalize(resp) ==
    /\ cyc.phase = "finalize"
    /\ LET c == [cyc EXCEPT !.commands =
                     Append(@, Command("FINALIZE", 0, resp.kind # "error"))]
           pinfo == resp.processing_info
       IN cyc' = IF resp.kind = "error" THEN Returned(c, FALSE)
                 ELSE IF c.media_type = "video" /\ ~IsNone(pinfo)
                 THEN Settle(c, Val(pinfo).state, Val(pinfo).check_after_secs)
                 ELSE Returned(c, TRUE)
    /\ UNCHANGED << now, xs, account, schedules, drafts, assets, logs, sess, pc,
                    consecutive_failures, requests, tweets, attempts, cycleFailed,
                    manual >>

\* one pass of the STATUS loop: the sleep, the poll, the new state
ChunkedStatus(resp) ==
    /\ cyc.phase = "status"
    /\ now' = Clock(now + cyc.check_after_secs)
    /\ LET polls == Cardinality({j \in 1..Len(cyc.commands) :
                                    cyc.commands[j].command = "STATUS"})
           c == IF polls < MaxPolls \/ resp.kind = "error"
                THEN [cyc EXCEPT !.commands =
                          Append(@, Command("STATUS", 0, resp.kind # "error"))]
                ELSE cyc
           pinfo == resp.processing_info
       IN cyc' = IF resp.kind = "error" THEN Returned(c, FALSE)
                 ELSE IF IsNone(pinfo) THEN Settle(c, "succeeded", DefaultCheckAfterSecs)
                 ELSE Settle(c, Val(pinfo).state, Val(pinfo).check_after_secs)
    /\ UNCHANGED << xs, account, schedules, drafts, assets, logs, sess, pc,
                    consecutive_failures, requests, tweets, attempts, cycleFailed,
                    manual >>

UploadNext ==
    \/ \E resp \in {"ok", "no_id", "error"} : ChunkedInit(resp)
    \/ \E resp \in {"ok", "error"} : ChunkedAppend(resp)
    \/ \E resp \in UploadResponses : ChunkedFinalize(resp)
    \/ \E resp \in UploadResponses : ChunkedStatus(resp)

UploadSpec == UploadInit /\ [][UploadNext]_vars

\* the coroutine runs on: every await of the call returns
UploadLiveSpec == UploadInit /\ [][UploadNext]_vars /\ WF_vars(UploadNext)

----------------------------------------------------------------------------
(* Properties of the main specification *)

Occurrences(seq, x) == Cardinality({i \in 1..Len(seq) : seq[i] = x})

\* the instants a slot of the model's requests can fall on
SlotInstants == {0, SlotT}

\* C1: no draft is published on the platform more than once across scheduler
\* cycles, also when a cycle was rolled back or abandoned after a publish of
\* that draft had succeeded (an external reset of the status starts anew).
C1_PublishedAtMostOnce ==
    \A d \in DOMAIN drafts : Occurrences(tweets, d) <= 1

\* C2: get_or_create_draft is idempotent: called twice for the same schedule
\* and slot with nothing changed in between, it returns the same Draft both
\* times and the second call creates no row.
C2_GetOrCreateIdempotent ==
    \A sid \in 1..Len(schedules), t \in SlotInstants, pick \in DOMAIN drafts :
        LET first == GetOrCreateDraft(drafts, sid, t, pick)
            second == GetOrCreateDraft(first.rows, sid, t, pick)
        IN /\ first.res # Raise
           /\ second.res = first.res
           /\ ~second.created
           /\ second.rows = first.rows

\* C3: after any sequence of schedule_campaign, create_auto_schedule,
\* update_draft and scheduler cycles there is at most one Draft row for each
\* (schedule_id, scheduled_for) pair with a non-null schedule_id.
C3_OneDraftPerSlot ==
    \A d1 \in DOMAIN drafts, d2 \in DOMAIN drafts :
        ( /\ drafts[d1].schedule_id # 0
          /\ ~IsNone(drafts[d1].scheduled_for)
          /\ drafts[d1].schedule_id = drafts[d2].schedule_id
          /\ drafts[d1].scheduled_for = drafts[d2].scheduled_for ) => d1 = d2

\* C4: a draft whose status is posted or skipped when a cycle considers it is
\* never passed to post_draft, on the legacy path or on the modern path.
C4_ProcessedNeverSubmitted ==
    \A i \in 1..Len(attempts) :
        attempts[i].submitted => attempts[i].seen \notin {"posted", "skipped"}

\* C4 witness: the legacy path has come upon a posted or skipped draft and left
\* it alone, and the modern path's batch of the same cycle, whose time window
\* the draft is in, does not hold it either.
C4_Witness ==
    /\ pc = "done"
    /\ \E i \in 1..Len(attempts) :
          /\ attempts[i].path = "legacy"
          /\ attempts[i].seen \in {"posted", "skipped"}
          /\ ~attempts[i].submitted
          /\ Val(drafts[attempts[i].draft].scheduled_for) <= cyc.tscan + DueBufferSeconds
          /\ attempts[i].draft \notin SeqToSet(cyc.batch)

\* C5: once a cycle has set a draft to failed, no later cycle submits it to
\* post_draft again unless its status was reset to pending from outside.
C5_FailedNeverResubmitted ==
    \A i \in 1..Len(attempts) :
        attempts[i].submitted => ~attempts[i].failedByCycle

\* C6: within one cycle, when the legacy path and the modern path come upon the
\* same draft, post_draft is invoked on that draft at most once.
C6_OncePerCycle ==
    \A i \in 1..Len(attempts), j \in 1..Len(attempts) :
        ( /\ attempts[i].path = "legacy" /\ attempts[i].submitted
          /\ attempts[j].path = "modern" /\ attempts[j].submitted )
        => attempts[i].draft # attempts[j].draft

\* C8: no cycle publishes a draft of a schedule that is inactive or whose end
\* date is before the cycle's scan instant, on the modern path as well.
C8_ClosedScheduleNeverPublished ==
    \A i \in 1..Len(attempts) :
        LET sid == View(sess)[attempts[i].draft].schedule_id
        IN (attempts[i].published /\ sid # 0) =>
              /\ schedules[sid].is_active
              /\ ~( /\ ~IsNone(schedules[sid].end_date)
                    /\ Val(schedules[sid].end_date) < cyc.tscan )

\* C10: every due item a cycle attempts ends the cycle with a changed draft
\* status or with a new PostLog entry for the draft.
C10_AttemptLeavesTrace ==
    (pc = "done" /\ consecutive_failures = 0) =>
        \A i \in 1..Len(attempts) :
            attempts[i].seen \notin {"posted", "skipped"} =>
                \/ drafts[attempts[i].draft].status # attempts[i].seen
                \/ \E k \in (cyc.logBase + 1)..Len(logs) :
                      logs[k].draft_id = attempts[i].draft

----------------------------------------------------------------------------
(* Properties of the scan *)

\* C7: get_due_schedules never includes a schedule whose is_active is false or
\* whose end_date is earlier than the instant of the scan.
C7_DueSchedulesOpen ==
    \A sid \in SeqToSet(cyc.due) :
        /\ schedules[sid].is_active
        /\ IsNone(schedules[sid].end_date) \/ Val(schedules[sid].end_date) >= cyc.tscan

\* C7 witness: a scan has just returned; one schedule with a slot in the scan's
\* minute is inactive, another is active and ended before the scan, and
\* neither is in the result.
C7_Witness ==
    /\ pc = "legacy" /\ attempts = << >> /\ now = cyc.tscan /\ cyc.slot = 1
    /\ \E s1 \in 1..Len(schedules), s2 \in 1..Len(schedules) :
          /\ ~schedules[s1].is_active
          /\ AnyTimeDue(schedules[s1], cyc.tscan)
          /\ schedules[s2].is_active
          /\ ~IsNone(schedules[s2].end_date)
          /\ Val(schedules[s2].end_date) < cyc.tscan
          /\ Val(schedules[s2].end_date) >= schedules[s2].start_date
          /\ AnyTimeDue(schedules[s2], cyc.tscan)
          /\ s1 \notin SeqToSet(cyc.due)
          /\ s2 \notin SeqToSet(cyc.due)

----------------------------------------------------------------------------
(* Properties of the post executor *)

\* the invocations of post_draft made so far by the current cycle
Invocations == {i \in 1..Len(attempts) : attempts[i].submitted}
Inv(i) == Val(attempts[i].inv)

\* C11: every invocation of post_draft, on every path, appends exactly one
\* PostLog entry whose action equals the outcome (posted or failed) and whose
\* details carry media_count and expected_media_count.
C11_OneLogPerInvocation ==
    \A i \in Invocations :
        /\ Len(Inv(i).logs) = 1
        /\ Inv(i).status \in {"posted", "failed"}
        /\ Inv(i).logs[1].draft_id = attempts[i].draft
        /\ Inv(i).logs[1].action = Inv(i).status
        /\ Inv(i).logs[1].media_count = Len(Inv(i).ids)
        /\ Inv(i).logs[1].expected_media_count
              = Len(View(sess)[attempts[i].draft].media)

\* C12: in mock mode post_draft sets the draft to posted with a synthetic post
\* id, whatever the rate-limit cache, the pacing timer, the account and the
\* token expiry are, and calls neither the token refresh, nor a gate, nor the
\* platform's publish.
C12_MockAlwaysPosts ==
    \A i \in Invocations :
        Inv(i).x.is_mock =>
            /\ Inv(i).status = "posted"
            /\ Inv(i).x_post_id = "mock_tweet"
            /\ Inv(i).calls = << >>
            /\ Inv(i).sent = << >>

\* C13: in live mode, when the cached app-level remaining count is known and at
\* most the safety buffer, can_post_tweet is false with a reason naming the
\* limit, and post_draft yields failed without calling ensure_valid_token or
\* post_tweet.
C13_AppQuotaStopsPublish ==
    \A i \in Invocations :
        LET x == Inv(i).x
        IN (/\ ~x.is_mock
            /\ ~IsNone(x.app_remaining)
            /\ Val(x.app_remaining) <= SafetyBuffer)
           => /\ ~CanPostTweet(x, SafetyBuffer)
              /\ Inv(i).status = "failed"
              /\ Inv(i).connected => Inv(i).message = "App rate limit"
              /\ \A k \in 1..Len(Inv(i).calls) :
                    Inv(i).calls[k] \notin {"ensure_valid_token", "post_tweet"}

\* the invocations of post_draft that a quota check stopped (lines 362-375; the
\* pacing check of 355-359 only sleeps and lets the attempt go on)
StoppedByGate ==
    {i \in Invocations : Inv(i).message \in {"App rate limit", "User rate limit"}}

\* C14: when the app quota check, the user quota check or the pacing check
\* stops a post attempt, the draft stays pending (and so is taken up again by a
\* later cycle).
C14_GateDenialKeepsPending ==
    \A i \in StoppedByGate : Inv(i).status = "pending"

\* the three checks of the rate / pace gate on the service state an invocation
\* of post_draft found: pacing (after the sleep of the returned wait), app
\* quota and user quota
GatesPassed(i) ==
    /\ "can_post_now" \in SeqToSet(Inv(i).calls)
    /\ CanPostTweet(Inv(i).x, SafetyBuffer)
    /\ CanUserPost(Inv(i).x, SafetyBuffer)

\* C15: in live mode XService.post_tweet is called only after the pacing check,
\* the app quota check and the user quota check have passed, both by the
\* scheduler's post_draft and by the manual endpoint POST /x/post.
C15_PublishOnlyThroughGate ==
    /\ \A i \in Invocations :
            "post_tweet" \in SeqToSet(Inv(i).calls) => GatesPassed(i)
    /\ ~IsNone(manual) =>
            ((Val(manual).post_tweet /\ ~Val(manual).mock)
                => (Val(manual).paced /\ Val(manual).app_ok /\ Val(manual).user_ok))

\* C16: post_draft never passes a MediaAsset whose x_media_id is set to
\* upload_media; it appends the cached id to the tweet's media ids instead, on
\* the attempt that finds it and on every later one.
C16_CachedMediaNotUploaded ==
    \A i \in Invocations :
        /\ Inv(i).cached \cap SeqToSet(Inv(i).sent) = {}
        /\ Inv(i).outcome # "raised" => Inv(i).cached \subseteq SeqToSet(Inv(i).ids)

\* a live invocation uploaded an asset, and a later invocation found its
\* x_media_id set, attached it without an upload and went on to publish
C16_Witness ==
    \E i, j \in Invocations :
        /\ j < i
        /\ ~Inv(i).x.is_mock
        /\ Inv(j).sent # << >>
        /\ SeqToSet(Inv(j).ids) \cap Inv(i).cached # {}
        /\ Inv(i).cached \subseteq SeqToSet(Inv(i).ids)
        /\ Inv(i).sent = << >>
        /\ "post_tweet" \in SeqToSet(Inv(i).calls)

\* C17: in a cycle the driver does not sleep before the first due modern draft
\* and sleeps exactly once before each of the others, for a duration within
\* [post_interval_min, post_interval_max] of that draft's schedule (120..300
\* for a draft without schedule).
C17_SleepBetweenDrafts ==
    [][(pc = "modern" /\ cyc'.idx = cyc.idx + 1) =>
          LET d == cyc.batch[cyc.idx]
              sid == View(sess)[d].schedule_id
              lo == IF sid # 0 THEN schedules[sid].post_interval_min
                    ELSE DefaultIntervalMin
              hi == IF sid # 0 THEN schedules[sid].post_interval_max
                    ELSE DefaultIntervalMax
              a == attempts'[Len(attempts')]
          IN /\ Len(attempts') = Len(attempts) + 1
             /\ a.draft = d
             /\ IF cyc.idx = 1 THEN IsNone(a.slept)
                ELSE /\ ~IsNone(a.slept)
                     /\ Val(a.slept) \in lo..hi]_vars

----------------------------------------------------------------------------
(* Properties of the scanner's window *)

\* C18: get_due_schedules reports an open schedule due exactly when the local
\* minute of the scan equals the minute of one of its slots or the minute
\* immediately after it, for every slot including 23:59 scanned at 00:00, and
\* not when the scan is two or more minutes after the slot.
C18_TwoMinuteWindow ==
    pc # "idle" =>
        \A sid \in 1..Len(schedules) :
            ScheduleOpen(schedules[sid], cyc.tscan) =>
                ( sid \in SeqToSet(cyc.found)
                  <=> \E k \in 1..Len(schedules[sid].times) :
                          /\ TimeStrValid(schedules[sid].times[k])
                          /\ LET cur == CurrentMinute(schedules[sid].timezone, cyc.tscan)
                                 m == ScheduledMinute(schedules[sid].times[k])
                             IN \/ cur = m
                                \/ cur = (m + 1) % (SecondsPerDay \div SecondsPerMinute) )

----------------------------------------------------------------------------
(* Properties of get_due_drafts *)

\* the drafts that are pending with a scheduled_for at most 30 s after t
DueBy(t) ==
    {d \in DOMAIN drafts :
        /\ drafts[d].status = "pending"
        /\ drafts[d].scheduled_for # None
        /\ Val(drafts[d].scheduled_for) <= t + 30}

\* C19: get_due_drafts returns exactly the drafts that are pending with a
\* non-null scheduled_for at most now + 30 s, in ascending scheduled_for
\* order, truncated to the max_drafts (5) oldest.
C19_DueDraftsOldestFirst ==
    (pc = "modern" /\ cyc.idx = 1 /\ attempts = << >>) =>
        LET b == cyc.batch
            at(d) == Val(drafts[d].scheduled_for)
        IN /\ SeqToSet(b) \subseteq DueBy(now)
           /\ Cardinality(SeqToSet(b)) = Len(b)
           /\ Len(b) = Min2(5, Cardinality(DueBy(now)))
           /\ \A i, j \in 1..Len(b) : i < j => at(b[i]) <= at(b[j])
           /\ \A d \in DueBy(now) \ SeqToSet(b), e \in SeqToSet(b) : at(e) <= at(d)

\* more than five drafts are due: the five oldest are returned, among them a
\* draft due in 10 s, while a pending draft due in 120 s is not
C19_Witness ==
    /\ pc = "modern" /\ cyc.idx = 1 /\ attempts = << >>
    /\ Cardinality(DueBy(now)) > 5
    /\ Len(cyc.batch) = 5
    /\ \E d \in SeqToSet(cyc.batch) : drafts[d].scheduled_for = Some(now + 10)
    /\ \E d \in DOMAIN drafts :
          /\ drafts[d].status = "pending"
          /\ drafts[d].scheduled_for = Some(now + 120)
          /\ d \notin SeqToSet(cyc.batch)

----------------------------------------------------------------------------
(* Properties of the cycle's unit of work *)

----------------------------------------------------------------------------
(* Properties of the driving loops *)

\* C21: a loop that drives run_scheduler_cycle ends the process as soon as
\* consecutive_failures has reached the threshold (10): with the count at the
\* threshold the process is at the end of the failing cycle or has exited, and
\* it never exits with the count below the threshold.
C21_ExitAtThreshold ==
    /\ consecutive_failures >= 10 => pc \in {"done", "exited"}
    /\ pc = "exited" => consecutive_failures >= 10

\* C23: shutdown never interrupts a cycle: the loop is stopped only between
\* cycles, after the cycle in flight has reached its commit or its rollback.
C23_ShutdownBetweenCycles ==
    [][pc' = "cancelled" => pc \in {"idle", "done", "cancelled"}]_vars

----------------------------------------------------------------------------
(* Properties of the application process *)

\* C22: in one process no two post_tweet calls are in flight at the same
\* time: while the handler of POST /x/post waits for the platform's answer,
\* the cycle makes no post_tweet call (and the loop runs one cycle at a time).
C22_OnePublishInFlight ==
    [][~ /\ ~IsNone(manual)
         /\ Val(manual).inflight
         /\ Len(attempts') = Len(attempts) + 1
         /\ attempts'[Len(attempts')].submitted
         /\ "post_tweet" \in SeqToSet(Val(attempts'[Len(attempts')].inv).calls)]_vars

\* C30: the cycle publishes a draft of its due batch only if the draft's
\* status is still pending at the moment of the publish: a draft that an API
\* request (update_draft, POST /x/post) has set to posted or skipped since the
\* batch was read is not published by the cycle.
C30_PublishOnlyPending ==
    \A i \in 1..Len(attempts) :
        (attempts[i].path = "modern" /\ attempts[i].published)
            => attempts[i].seen = "pending"

----------------------------------------------------------------------------
(* Properties of the token handling *)

\* C24: in live mode, when the token refresh fails, ensure_valid_token raises,
\* post_draft makes no post_tweet call, and the draft is set to failed with the
\* error as last_error.
C24_RefreshFailureFailsDraft ==
    \A i \in Invocations :
        Inv(i).token = "refresh_failed" =>
            /\ "post_tweet" \notin SeqToSet(Inv(i).calls)
            /\ Inv(i).status = "failed"
            /\ Inv(i).last_error = "Failed to refresh X token"
            /\ Inv(i).logs # << >>
            /\ Inv(i).logs[1].action = "failed"

\* a live invocation passed the three checks of the gate, found the stored
\* token about to expire and could not refresh it
C24_Witness ==
    \E i \in Invocations :
        /\ ~Inv(i).x.is_mock
        /\ Inv(i).token = "refresh_failed"
        /\ Inv(i).calls[Len(Inv(i).calls)] = "ensure_valid_token"
        /\ Inv(i).status = "failed"

\* C25: in live mode ensure_valid_token never returns a token whose stored
\* expiry is within 5 minutes of now or past: it then refreshes, stores the new
\* access token, refresh token and expiry together and returns the new access
\* token; in mock mode it returns the stored token without an expiry check.
C25_NoExpiringTokenReturned ==
    ~IsNone(manual) =>
        LET h == Val(manual)
            stale(acct) == /\ acct.token_expires_at # None
                           /\ Val(acct.token_expires_at) <= h.at + 300
        IN IF h.mock
           THEN ~h.raised /\ h.token = h.before.access_token /\ h.after = h.before
           ELSE /\ h.raised => h.after = h.before
                /\ ~h.raised =>
                     /\ h.token = h.after.access_token
                     /\ ~stale(h.after)
                     /\ IF stale(h.before)
                        THEN /\ h.after.access_token # h.before.access_token
                             /\ h.after.refresh_token >= h.before.refresh_token
                             /\ h.after.token_expires_at # h.before.token_expires_at
                        ELSE h.after = h.before

\* a live call at the very edge of the buffer (the stored expiry is exactly 5
\* minutes after now) refreshed and returned the new token
C25_Witness ==
    /\ ~IsNone(manual)
    /\ ~Val(manual).mock
    /\ Val(manual).before.token_expires_at = Some(Val(manual).at + 300)
    /\ ~Val(manual).raised
    /\ Val(manual).token = Val(manual).before.access_token + 1

----------------------------------------------------------------------------
(* Properties of the schedule endpoints *)

\* C26: a schedule request for a campaign that has no drafts is rejected with
\* an error that names the missing drafts; it creates no Schedule row and
\* changes no Draft.
C26_NoDraftsRejected ==
    [][(requests' # requests /\ DOMAIN drafts = {}) =>
          /\ manual' = Some([status |-> 400,
                             detail |-> "No drafts found. Generate drafts first."])
          /\ schedules' = schedules
          /\ drafts' = drafts
          /\ logs' = logs]_vars

\* a schedule request for the campaign without drafts has been answered
C26_Witness ==
    /\ requests > 0
    /\ DOMAIN drafts = {}
    /\ schedules = << >>
    /\ ~IsNone(manual)
    /\ Val(manual).status = 400

\* C27: calculate_next_runs returns at most count run times, every one
\* strictly later than now and none after the schedule's end date; for
\* recurrence once all returned runs lie on a single calendar date, so there
\* are at most len(times) of them.
C27_NextRunsBounded ==
    ~IsNone(manual) =>
        LET r == Val(manual)
            sch == schedules[1]
            n == Len(r.runs)
        IN /\ n <= r.count
           /\ \A i \in 1..n : FromIsoFormat(r.runs[i]) > r.at
           /\ ~IsNone(sch.end_date) =>
                \A i \in 1..n :
                    IF sch.aware
                    THEN FromIsoFormat(r.runs[i]) <= Val(sch.end_date)
                    ELSE r.runs[i].date <= Val(sch.end_date) \div SecondsPerDay
           /\ sch.recurrence = "once" =>
                /\ \A i, j \in 1..n : r.runs[i].date = r.runs[j].date
                /\ n <= Len(sch.times)

\* a call on a daily schedule with an end date returned several runs, fewer
\* than asked for because the later ones lie after the end
C27_Witness ==
    /\ ~IsNone(manual)
    /\ Len(Val(manual).runs) >= 2
    /\ ~IsNone(schedules[1].end_date)
    /\ Val(manual).count > Len(Val(manual).runs)
    /\ schedules[1].recurrence = "daily"

----------------------------------------------------------------------------
(* Properties of process_schedule *)

\* C28: for every schedule that get_due_schedules reports due in a cycle,
\* matched at the slot's own minute or at the minute after, process_schedule
\* in that cycle materializes the draft of the matching slot (and executes it
\* or leaves it pending with a scheduled PostLog entry): when the legacy path
\* of the cycle is through, each reported schedule has a draft taken up.
C28_DueScheduleMaterialized ==
    (pc = "modern" /\ cyc.idx = 1) =>
        \A k \in 1..Len(cyc.found) :
            \E i \in 1..Len(attempts) :
                /\ attempts[i].path = "legacy"
                /\ View(sess)[attempts[i].draft].schedule_id = cyc.found[k]

----------------------------------------------------------------------------
(* Properties of the quota gate over time *)

\* C29: in live mode the closed app quota gate is absorbing: once the cached
\* app remaining counter is at or below the safety buffer it stays so, and
\* every later post_draft call in the process yields failed without a publish
\* call, at every later time.
C29_ClosedGateAbsorbing ==
    [][~CanPostTweet(xs, SafetyBuffer) =>
          /\ ~CanPostTweet(xs', SafetyBuffer)
          /\ (/\ Len(attempts') = Len(attempts) + 1
              /\ attempts'[Len(attempts')].submitted)
             => LET inv == Val(attempts'[Len(attempts')].inv)
                IN /\ inv.status = "failed"
                   /\ "post_tweet" \notin SeqToSet(inv.calls)]_vars

----------------------------------------------------------------------------
(* Properties of the template drafts *)

\* C31: scheduling a campaign and materializing a slot leave every template
\* draft (schedule_id null, scheduled_for null) as it is: its schedule_id,
\* scheduled_for, status and text are unchanged; the scheduled drafts are new
\* rows.
C31_TemplatesUnchanged ==
    [][(Len(schedules') # Len(schedules) \/ pc # "idle") =>
          \A d \in DOMAIN drafts :
              (drafts[d].schedule_id = 0 /\ drafts[d].scheduled_for = None) =>
                  /\ d \in DOMAIN drafts'
                  /\ drafts'[d].schedule_id = 0
                  /\ drafts'[d].scheduled_for = None
                  /\ drafts'[d].status = drafts[d].status
                  /\ drafts'[d].text = drafts[d].text]_vars

----------------------------------------------------------------------------
(* Properties of the daily limit *)

\* C32: for every schedule, the number of its drafts the scheduler publishes
\* within one calendar day never exceeds the schedule's daily_limit (the
\* publishes of one cycle fall on one day).
C32_DailyLimitRespected ==
    \A sid \in 1..Len(schedules) :
        Cardinality({i \in 1..Len(attempts) :
                        /\ attempts[i].published
                        /\ View(sess)[attempts[i].draft].schedule_id = sid})
            <= schedules[sid].daily_limit

----------------------------------------------------------------------------
(* Properties of the token used by the media uploads *)

\* C33: in live mode every bearer-token call of one post_draft attempt, the
\* media uploads as well as the publish, uses a token that ensure_valid_token
\* returned in that attempt: no media upload is made with a token that is
\* expired or within 5 minutes of expiry.
C33_UploadsUseValidToken ==
    \A i \in Invocations :
        (~Inv(i).x.is_mock /\ Inv(i).sent # << >>) => ~Inv(i).expiring

----------------------------------------------------------------------------
(* Properties of the pacing check *)

\* C34: any two consecutive successful live publishes made through post_draft
\* are at least MIN_TWEET_INTERVAL_SECONDS (30 s) apart: post_draft sleeps the
\* returned wait and the publish happens no earlier than 30 s after the
\* previous one.
C34_PublishesThirtySecondsApart ==
    (~IsNone(manual) /\ ~IsNone(Val(manual).previous)) =>
        Val(manual).at - Val(Val(manual).previous)
            >= MIN_TWEET_INTERVAL_SECONDS * TicksPerSecond

----------------------------------------------------------------------------
(* Properties of the media loop *)

\* C35: a failure of one media item adds an entry to the media error list and
\* never aborts post_draft: an invocation that did not get an id for every
\* attached media still makes its publish decision and writes its PostLog
\* entry, which records the media that succeeded against those expected.
C35_MediaFailureNeverAborts ==
    \A i \in Invocations :
        LET ms == View(sess)[attempts[i].draft].media
        IN Len(Inv(i).ids) < Len(ms) =>
              /\ Inv(i).outcome \in {"posted", "failed"}
              /\ Len(Inv(i).logs) = 1
              /\ Inv(i).logs[1].media_count = Len(Inv(i).ids)
              /\ Inv(i).logs[1].expected_media_count = Len(ms)

----------------------------------------------------------------------------
(* Properties of the chunked upload *)

\* C36: post_draft terminates for every behaviour of the platform: the STATUS
\* polling loop of the chunked upload performs a bounded number of polls even
\* when the platform keeps answering pending or in_progress, so the call
\* returns.
C36_UploadReturns == <>(cyc.phase = "returned")

\* C37: a chunked upload sends INIT, then APPEND for the segments 0..n-1 in
\* ascending order without a gap, then FINALIZE, then for a video STATUS polls
\* while the state is pending or in_progress; it returns success with the
\* media id only if every step succeeded and the final state is not failed,
\* and a failure at any step stops the sequence and returns failure with no
\* media id.
C37_ChunkedCommandOrder ==
    LET c == cyc.commands
        n == cyc.segments
        a == Cardinality({j \in 1..Len(c) : c[j].command = "APPEND"})
    IN /\ \A j \in 1..Len(c) :
             /\ j = 1 => c[j].command = "INIT"
             /\ (2 <= j /\ j <= a + 1) =>
                    (c[j].command = "APPEND" /\ c[j].segment_index = j - 2)
             /\ j = a + 2 => (c[j].command = "FINALIZE" /\ a = n)
             /\ j > a + 2 => (c[j].command = "STATUS" /\ cyc.media_type = "video")
             \* a failed step is the last one and ends the call with failure
             /\ ~c[j].ok =>
                    /\ j = Len(c)
                    /\ cyc.result = Some([success |-> FALSE, media_id |-> None])
       /\ cyc.phase = "status" => cyc.state \in {"pending", "in_progress"}
       /\ ~IsNone(cyc.result) =>
             IF Val(cyc.result).success
             THEN /\ Val(cyc.result).media_id # None
                  /\ \A j \in 1..Len(c) : c[j].ok
                  /\ a = n
                  /\ \E j \in 1..Len(c) : c[j].command = "FINALIZE"
                  /\ cyc.state \notin {"pending", "in_progress", "failed"}
             ELSE Val(cyc.result).media_id = None

\* a video of two segments was appended, finalized, polled and accepted
C37_Witness ==
    /\ cyc.media_type = "video"
    /\ cyc.segments = MaxSegments
    /\ ~IsNone(cyc.result)
    /\ Val(cyc.result).success
    /\ \E j \in 1..Len(cyc.commands) : cyc.commands[j].command = "STATUS"

----------------------------------------------------------------------------
(* Properties of the rate-limit cache *)

\* C38: after every post_tweet call that received an HTTP response, success or
\* error status, the cached app-level counter equals the value of that
\* response's rate-limit header and the next can_post_tweet decision is based
\* on it; a call that received no response leaves the cache unchanged.
C38_CacheFollowsResponse ==
    [][(/\ Len(attempts') = Len(attempts) + 1
        /\ attempts'[Len(attempts')].submitted
        /\ ~IsNone(Val(attempts'[Len(attempts')].inv).resp))
       => LET resp == Val(Val(attempts'[Len(attempts')].inv).resp)
          IN IF resp.kind = "none"
             THEN xs'.app_remaining = xs.app_remaining
             ELSE /\ xs'.app_remaining = resp.app
                  /\ CanPostTweet(xs', SafetyBuffer)
                       <=> (IsNone(resp.app) \/ Val(resp.app) > SafetyBuffer)]_vars

\* a publish call was answered with an error status whose header closes the
\* gate, and the cache holds that header's value
C38_Witness ==
    \E i \in Invocations :
        /\ i = Len(attempts)
        /\ ~IsNone(Inv(i).resp)
        /\ Val(Inv(i).resp).kind = "error"
        /\ ~IsNone(Val(Inv(i).resp).app)
        /\ xs.app_remaining = Val(Inv(i).resp).app
        /\ ~CanPostTweet(xs, SafetyBuffer)

----------------------------------------------------------------------------
(* Properties of the delay draw *)

\* C39: every schedule that ScheduleRequest validation accepts has
\* post_interval_min <= post_interval_max, so the random delay draw before a
\* non-first draft of a batch always succeeds and that draft of an auto-post
\* schedule is attempted in the cycle, not skipped by the per-draft error
\* handler and left pending.
C39_DelayDrawSucceeds ==
    [][(pc = "modern" /\ cyc'.idx = cyc.idx + 1 /\ cyc.idx > 1) =>
          LET d == cyc.batch[cyc.idx]
              sid == View(sess)[d].schedule_id
              a == attempts'[Len(attempts')]
          IN (sid # 0 /\ IntervalsAccepted(schedules[sid].post_interval_min,
                                           schedules[sid].post_interval_max))
             => /\ schedules[sid].post_interval_min <= schedules[sid].post_interval_max
                /\ Len(attempts') = Len(attempts) + 1
                /\ a.draft = d
                /\ ~IsNone(a.slept)
                /\ schedules[sid].auto_post => a.submitted]_vars

====
